---- MODULE Spec2Model ----
(***************************************************************************)
(* Meteor: transactional execution engine.                                 *)
(*                                                                         *)
(* State: the versioned table (BufferStore), the transaction manager's     *)
(* maps, the lock manager's three tables, the GSN and transaction-id       *)
(* counters, and for every connection the handler it is blocked in.        *)
(* A handler runs atomically between two suspension points; the only       *)
(* suspension point inside a handler is a queued lock request.             *)
(* The write-ahead log is the header of its file (NextTransactionId,       *)
(* NextGsn), its rows and the read offset (walManager); gsnManager and     *)
(* transactionIdBatch are the batches the two counters are taken from,     *)
(* UseWal is the configuration's flag. The workloads that interleave       *)
(* GetNewGsn, or the calls of the StoreManager API, keep the position of   *)
(* every goroutine in callers.                                             *)
(*                                                                         *)
(* History variables (they never influence the program's state):           *)
(*   resp        the response of the handler that returned in this step    *)
(*   written     per transaction and key, its last PUT/DELETE (value, GSN) *)
(*               and the GSNs of all its PUT/DELETEs                       *)
(*   lastGet     per transaction and key, the last value a GET returned    *)
(*   beginVals   per snapshot transaction, the values committed at BEGIN   *)
(*   sinceBegin  per snapshot transaction, the keys other transactions     *)
(*               have committed since its BEGIN                            *)
(*   requests    the number of requests the clients have yet to send       *)
(*   handed      the GSNs that GetNewGsn has returned, in order            *)
(* and the field "foreign" of a connection's pending request.              *)
(***************************************************************************)
EXTENDS Integers, Sequences, FiniteSets, TLC

\* ---------------------------------------------------------------- bounds
MaxTxnId == 3
MaxGsn == 7
MaxLocks == 3
\* Requests the clients send in each workload
MaxSnapshotRequests == 7
MaxPointRequests == 5
MaxReadRequests == 4
MaxLockRequests == 5
MaxSerialRequests == 6
MaxRollbackRequests == 5
MaxForeignRequests == 6
MaxForgedRequests == 5

\* Ids and GSNs that one allocation takes from the WAL header (scaled down)
GSN_ALLOCATION_BATCH_SIZE == 4
TRANSACTION_ID_ALLOCATION_BATCH_SIZE == 4
\* Restarts of the process
MaxRestarts == 2
MaxWalRequests == 7
MaxRecoveryRequests == 5
\* Calls of GetNewGsn that each goroutine of the allocator workload makes
MaxGsnCalls == 3
MaxTxnIdCalls == 3
\* Requests of the deadlock workload
MaxDeadlockRequests == 6
MaxCycleRequests == 6
MaxLostUpdateRequests == 9
\* Requests of the concurrent-write workload
MaxConcurrentRequests == 6
\* Increments that each client of the StoreManager API makes
MaxIncrements == 2

\* ---------------------------------------------------------------- inputs
Keys == {1, 2}
Vals == {"a", "b"}
Conns == {"c1", "c2"}
TxnIds == 1..MaxTxnId

Nil == "nil"
TypeTombstone == "tombstone"
EmptyKey == 0

TXN_ISOLATION_READ_COMMITTED == "READ_COMMITTED"
TXN_ISOLATION_REPEATABLE_READ == "REPEATABLE_READ"
TXN_ISOLATION_SNAPSHOT_ISOLATION == "SNAPSHOT_ISOLATION"
TXN_ISOLATION_SERIALIZABLE == "SERIALIZABLE"
Levels == {TXN_ISOLATION_READ_COMMITTED, TXN_ISOLATION_REPEATABLE_READ,
           TXN_ISOLATION_SNAPSHOT_ISOLATION, TXN_ISOLATION_SERIALIZABLE}

ReadLock == "READ"
WriteLock == "WRITE"
RangeLock == "RANGE"
PredicateLock == "PREDICATE"

\* Conditions of COUNT: "*" and "$value = 'b'".
CondAll == 1
CondValueB == 2
Conds == {CondAll, CondValueB}

\* Keys of the lock table.  The code keys it by strings: the key itself for
\* a point lock, "range:<start>:<end>" and "predicate:<p>" for the others.
\* The user keys of the model sort apart from those composite strings.
PointKey(k) == <<"point", k, k>>
RangeKey(a, b) == <<"range", a, b>>
PredicateKey(p) == <<"predicate", p, p>>
LockKeys == {PointKey(k) : k \in Keys}
            \cup {RangeKey(a, b) : a \in Keys, b \in Keys}
            \cup {PredicateKey(p) : p \in Conds}

VARIABLES table, transactionStoreMap, connToTransactionIdsMap,
          txnToIsolationLevelMap, txnStartGsnMap,
          lockTable, transactionLocks, waitingRequests, acquiredCh,
          gsn, currentTransactionId, pending, resp,
          written, lastGet, beginVals, sinceBegin, requests,
          UseWal, walManager, gsnManager, transactionIdBatch, callers, handed

vars == <<table, transactionStoreMap, connToTransactionIdsMap,
          txnToIsolationLevelMap, txnStartGsnMap,
          lockTable, transactionLocks, waitingRequests, acquiredCh,
          gsn, currentTransactionId, pending, resp,
          written, lastGet, beginVals, sinceBegin, requests,
          UseWal, walManager, gsnManager, transactionIdBatch, callers, handed>>

\* The shared state as one record, so that a handler is a function of it.
DB == [table |-> table,
       transactionStoreMap |-> transactionStoreMap,
       connToTransactionIdsMap |-> connToTransactionIdsMap,
       txnToIsolationLevelMap |-> txnToIsolationLevelMap,
       txnStartGsnMap |-> txnStartGsnMap,
       lockTable |-> lockTable,
       transactionLocks |-> transactionLocks,
       waitingRequests |-> waitingRequests,
       acquiredCh |-> acquiredCh,
       gsn |-> gsn,
       currentTransactionId |-> currentTransactionId,
       written |-> written,
       lastGet |-> lastGet,
       beginVals |-> beginVals,
       sinceBegin |-> sinceBegin,
       UseWal |-> UseWal,
       walManager |-> walManager,
       gsnManager |-> gsnManager,
       transactionIdBatch |-> transactionIdBatch]

\* The handler's result becomes the shared state.
SetShared(d) ==
    /\ table' = d.table
    /\ transactionStoreMap' = d.transactionStoreMap
    /\ connToTransactionIdsMap' = d.connToTransactionIdsMap
    /\ txnToIsolationLevelMap' = d.txnToIsolationLevelMap
    /\ txnStartGsnMap' = d.txnStartGsnMap
    /\ lockTable' = d.lockTable
    /\ transactionLocks' = d.transactionLocks
    /\ waitingRequests' = d.waitingRequests
    /\ acquiredCh' = d.acquiredCh
    /\ gsn' = d.gsn
    /\ currentTransactionId' = d.currentTransactionId
    /\ written' = d.written
    /\ lastGet' = d.lastGet
    /\ beginVals' = d.beginVals
    /\ sinceBegin' = d.sinceBegin
    /\ UseWal' = d.UseWal
    /\ walManager' = d.walManager
    /\ gsnManager' = d.gsnManager
    /\ transactionIdBatch' = d.transactionIdBatch

\* ... by a handler that runs GetNewGsn as one step
SetDB(d) ==
    /\ SetShared(d)
    /\ UNCHANGED <<callers, handed>>

Max(S) == CHOOSE x \in S : \A y \in S : y <= x

MapDelete(m, x) == [y \in DOMAIN m \ {x} |-> m[y]]
MapPut(m, x, v) == [y \in DOMAIN m \cup {x} |-> IF y = x THEN v ELSE m[y]]

\* ------------------------------------------------------------ lock manager
Lock(txn, key, type, startKey, endKey) ==
    [txn |-> txn, key |-> key, type |-> type, startKey |-> startKey, endKey |-> endKey]

LockRequest(txn, key, type, conn) ==
    [txn |-> txn, key |-> key, type |-> type, conn |-> conn]

\* areLocksCompatible with a bug: one READ lock of the two is enough.
areLocksCompatibleEither(existing, requested) ==
    existing = ReadLock \/ requested = ReadLock

areLocksCompatible(existing, requested) ==
    existing = ReadLock /\ requested = ReadLock

\* canGrantLock with a bug: the holders of the key are ignored.
canGrantLockAlways(d, key, lockType, txn) ==
    TRUE

canGrantLock(d, key, lockType, txn) ==
    \A i \in 1..Len(d.lockTable[key]) :
        \/ d.lockTable[key][i].txn = txn
        \/ areLocksCompatible(d.lockTable[key][i].type, lockType)

\* grantLock with a bug: the lock is not added to the transaction's list.
grantLockTableOnly(d, lock) ==
    [d EXCEPT !.lockTable[lock.key] = Append(@, lock)]

grantLock(d, lock) ==
    [d EXCEPT !.lockTable[lock.key] = Append(@, lock),
              !.transactionLocks[lock.txn] = Append(@, lock)]

RECURSIVE processQueue(_, _, _, _)
processQueue(d, key, queue, newQueue) ==
    IF queue = <<>>
    THEN [d EXCEPT !.waitingRequests[key] = newQueue]
    ELSE LET request == Head(queue) IN
         IF canGrantLock(d, key, request.type, request.txn)
         THEN processQueue(
                  [grantLock(d, Lock(request.txn, key, request.type, EmptyKey, EmptyKey))
                      EXCEPT !.acquiredCh = @ \cup {request.conn}],
                  key, Tail(queue), newQueue)
         ELSE processQueue(d, key, Tail(queue), Append(newQueue, request))

processWaitingRequests(d, key) ==
    processQueue(d, key, d.waitingRequests[key], <<>>)

releaseLock(d, txn, key, lockType) ==
    LET found == \E i \in 1..Len(d.lockTable[key]) :
                    d.lockTable[key][i].txn = txn /\ d.lockTable[key][i].type = lockType
        d1 == [d EXCEPT
                 !.lockTable[key] =
                     SelectSeq(@, LAMBDA l : ~(l.txn = txn /\ l.type = lockType)),
                 !.transactionLocks[txn] =
                     SelectSeq(@, LAMBDA l : ~(l.key = key /\ l.type = lockType))]
    IN IF ~found
       THEN [db |-> d, ok |-> FALSE]
       ELSE [db |-> processWaitingRequests(d1, key), ok |-> TRUE]

RECURSIVE releaseEach(_, _, _, _)
releaseEach(d, txn, locks, i) ==
    IF i > Len(locks)
    THEN d
    ELSE LET r == releaseLock(d, txn, locks[i].key, locks[i].type) IN
         IF r.ok THEN releaseEach(r.db, txn, locks, i + 1) ELSE r.db

ReleaseAllLocks(d, txn) ==
    releaseEach(d, txn, d.transactionLocks[txn], 1)

\* wouldCauseDeadlock with a bug: no cycle is ever found.
wouldCauseDeadlockNever(d, txn, key) == FALSE

wouldCauseDeadlock(d, txn, key) ==
    \E i \in 1..Len(d.lockTable[key]) :
        /\ d.lockTable[key][i].txn # txn
        /\ \E j \in 1..Len(d.transactionLocks[txn]) :
             LET q == d.waitingRequests[d.transactionLocks[txn][j].key] IN
             \E w \in 1..Len(q) : q[w].txn = d.lockTable[key][i].txn

removeWaitingRequest(d, txn, key) ==
    [d EXCEPT !.waitingRequests[key] = SelectSeq(@, LAMBDA r : r.txn # txn)]

rangesOverlap(start1, end1, start2, end2) ==
    ~(end1 < start2 \/ end2 < start1)

canGrantRangeLock(d, startKey, endKey, txn) ==
    /\ \A k \in Keys :
         (k >= startKey /\ k <= endKey) =>
             \A i \in 1..Len(d.lockTable[PointKey(k)]) :
                 d.lockTable[PointKey(k)][i].txn = txn
    /\ \A i \in 1..Len(d.lockTable[RangeKey(startKey, endKey)]) :
         LET l == d.lockTable[RangeKey(startKey, endKey)][i] IN
         l.txn # txn => ~rangesOverlap(startKey, endKey, l.startKey, l.endKey)

\* canGrantPredicateLock with a bug: the holders of the predicate are ignored.
canGrantPredicateLockAlways(d, predicate, txn) ==
    TRUE

canGrantPredicateLock(d, predicate, txn) ==
    \A i \in 1..Len(d.lockTable[PredicateKey(predicate)]) :
        d.lockTable[PredicateKey(predicate)][i].txn = txn

\* The three Acquire calls up to their suspension point: the lock is granted,
\* a deadlock is reported, or the request is queued and the caller waits.
AcquireLock(d, txn, k, lockType, conn) ==
    IF canGrantLock(d, PointKey(k), lockType, txn)
    THEN [db |-> grantLock(d, Lock(txn, PointKey(k), lockType, EmptyKey, EmptyKey)),
          res |-> "granted", key |-> PointKey(k)]
    ELSE IF wouldCauseDeadlock(d, txn, PointKey(k))
    THEN [db |-> d, res |-> "deadlock", key |-> PointKey(k)]
    ELSE [db |-> [d EXCEPT !.waitingRequests[PointKey(k)] =
                       Append(@, LockRequest(txn, PointKey(k), lockType, conn))],
          res |-> "queued", key |-> PointKey(k)]

AcquireRangeLock(d, txn, startKey, endKey, conn) ==
    LET key == RangeKey(startKey, endKey) IN
    IF canGrantRangeLock(d, startKey, endKey, txn)
    THEN [db |-> grantLock(d, Lock(txn, key, RangeLock, startKey, endKey)),
          res |-> "granted", key |-> key]
    ELSE IF wouldCauseDeadlock(d, txn, key)
    THEN [db |-> d, res |-> "deadlock", key |-> key]
    ELSE [db |-> [d EXCEPT !.waitingRequests[key] =
                       Append(@, LockRequest(txn, key, RangeLock, conn))],
          res |-> "queued", key |-> key]

AcquirePredicateLock(d, txn, predicate, conn) ==
    LET key == PredicateKey(predicate) IN
    IF canGrantPredicateLock(d, predicate, txn)
    THEN [db |-> grantLock(d, Lock(txn, key, PredicateLock, EmptyKey, EmptyKey)),
          res |-> "granted", key |-> key]
    ELSE IF wouldCauseDeadlock(d, txn, key)
    THEN [db |-> d, res |-> "deadlock", key |-> key]
    ELSE [db |-> [d EXCEPT !.waitingRequests[key] =
                       Append(@, LockRequest(txn, key, PredicateLock, conn))],
          res |-> "queued", key |-> key]

\* ------------------------------------------------------------ WAL manager
TRANSACTION_STATE_QUEUED == "QUEUED"
TRANSACTION_STATE_COMMIT == "COMMIT"
TRANSACTION_STATE_ROLLBACK == "ROLLBACK"

NewTransactionRow(transactionId, operation, state, key, g, oldValue, newValue) ==
    [TransactionId |-> transactionId, Operation |-> operation, State |-> state,
     Key |-> key, Gsn |-> g, OldValue |-> oldValue, NewValue |-> newValue]

\* The file meteor.wal: its header and its rows; lso is the cursor of the
\* open file, counted in rows (1 is the row-start offset).
EmptyWalFile == [walHeader |-> [NextTransactionId |-> 0, NextGsn |-> 0],
                 rows |-> <<>>]

\* NewWalManager: the header is read from the file when there is one and
\* written back; the cursor stands at the first row.
NewWalManager(file) ==
    [walHeader |-> file.walHeader, rows |-> file.rows, lso |-> 1]

AllocateTransactionIdBatch(w) ==
    [w |-> [w EXCEPT !.walHeader.NextTransactionId =
                        @ + TRANSACTION_ID_ALLOCATION_BATCH_SIZE],
     start |-> w.walHeader.NextTransactionId,
     end |-> w.walHeader.NextTransactionId + TRANSACTION_ID_ALLOCATION_BATCH_SIZE]

AllocateGsnBatch(w) ==
    [w |-> [w EXCEPT !.walHeader.NextGsn = @ + GSN_ALLOCATION_BATCH_SIZE],
     start |-> w.walHeader.NextGsn,
     end |-> w.walHeader.NextGsn + GSN_ALLOCATION_BATCH_SIZE]

\* WalRow.MarshalBinary and UnmarshalBinary: the bytes of a row hold its
\* offset and the fields of the transaction row; the timestamp, the log
\* type and the checksum (both zero) carry nothing that is read back.
MarshalBinary(lso, row) ==
    <<lso, row.TransactionId, row.Operation, row.State,
      <<row.Gsn, row.Key>>, row.OldValue, row.NewValue>>

UnmarshalBinary(bytes) ==
    [Lso |-> bytes[1], TransactionId |-> bytes[2], Operation |-> bytes[3],
     State |-> bytes[4], Key |-> bytes[5][2], Gsn |-> bytes[5][1],
     OldValue |-> bytes[6], NewValue |-> bytes[7]]

\* AddRow: the row is written at the cursor, which moves behind it.
AddRow(w, row) ==
    [w EXCEPT !.rows = [i \in 1..Max({Len(w.rows), w.lso}) |->
                          IF i = w.lso THEN MarshalBinary(w.lso, row) ELSE w.rows[i]],
              !.lso = @ + 1]

\* ReadRow: the row at the cursor, or EOF behind the last row.
ReadRow(w) ==
    IF w.lso > Len(w.rows)
    THEN [w |-> w, eof |-> TRUE, row |-> Nil]
    ELSE LET walRow == UnmarshalBinary(w.rows[w.lso]) IN
         [w |-> [w EXCEPT !.lso = @ + 1], eof |-> FALSE,
          row |-> NewTransactionRow(walRow.TransactionId, walRow.Operation,
                                    walRow.State, walRow.Key, walRow.Gsn,
                                    walRow.OldValue, walRow.NewValue)]

ResetOffsetToFirstRow(w) == [w EXCEPT !.lso = 1]

\* DBManager.AddTransactionToWal
AddTransactionToWal(d, row) ==
    IF ~d.UseWal THEN d ELSE [d EXCEPT !.walManager = AddRow(@, row)]

\* GetNewGsn as one goroutine runs it when no other is inside it: the value
\* it returns is the counter it leaves (old counter + 1, which at a refill
\* is the start of the new batch).
GetNewGsn(d) ==
    IF d.gsn = d.gsnManager.gsnBatchEnd - 1
    THEN LET b == AllocateGsnBatch(d.walManager) IN
         [d EXCEPT !.walManager = b.w,
                   !.gsnManager.gsnBatchStart = b.start,
                   !.gsnManager.gsnBatchEnd = b.end,
                   !.gsn = b.start]
    ELSE [d EXCEPT !.gsn = @ + 1]

\* GetNewTransactionId, likewise; the id it returns is the counter it leaves.
GetNewTransactionId(d) ==
    IF d.currentTransactionId = d.transactionIdBatch.transactionIdBatchEnd - 1
    THEN LET b == AllocateTransactionIdBatch(d.walManager) IN
         [d EXCEPT !.walManager = b.w,
                   !.transactionIdBatch = [@ EXCEPT !.transactionIdBatchStart = b.start,
                                                    !.transactionIdBatchEnd = b.end],
                   !.currentTransactionId = b.start + 1]
    ELSE [d EXCEPT !.currentTransactionId = @ + 1]

\* ------------------------------------------------------------------ store
\* MapDataTable: key -> (gsn -> value); a key is present once it was Put.
EmptyStore == [k \in {} |-> Nil]

StoreGet(s, k) ==
    IF k \notin DOMAIN s THEN Nil ELSE s[k][Max(DOMAIN s[k])]

StorePut(s, k, g, v) ==
    MapPut(s, k, MapPut(IF k \in DOMAIN s THEN s[k] ELSE [x \in {} |-> Nil], g, v))

HasKey(s, k) == k \in DOMAIN s

GetLatestGsn(s, k) == Max(DOMAIN s[k])

GetVersionAtOrBeforeGsn(s, k, maxGsn) ==
    IF k \notin DOMAIN s THEN Nil
    ELSE LET older == {g \in DOMAIN s[k] : g <= maxGsn} IN
         IF older = {} THEN Nil ELSE s[k][Max(older)]

ScanRange(s, startKey, endKey) ==
    [k \in {x \in DOMAIN s : x >= startKey /\ x <= endKey /\ StoreGet(s, x) # Nil}
        |-> StoreGet(s, k)]

\* ComparisonExpression.Evaluate for "$value = 'b'", and COUNT's filter for "*".
EvalCond(cond, k, v) ==
    IF cond = CondAll
    THEN v # Nil /\ v # TypeTombstone
    ELSE v # Nil /\ v # TypeTombstone /\ v = "b"

ScanWithFilter(s, cond) ==
    [k \in {x \in DOMAIN s : StoreGet(s, x) # Nil /\ EvalCond(cond, x, StoreGet(s, x))}
        |-> StoreGet(s, k)]

ValuesOf(s, k) == IF k \in DOMAIN s THEN {s[k][g] : g \in DOMAIN s[k]} ELSE {}

\* ------------------------------------------------------ transaction manager
NoWrite == [val |-> Nil, gsn |-> 0, gsns |-> {}]
NoWrites == [k \in Keys |-> NoWrite]
NoGets == [k \in Keys |-> Nil]

IsNewTransactionId(d, t) == t \notin DOMAIN d.transactionStoreMap

isTransactionIdAllowedForConnection(d, t, c) ==
    IsNewTransactionId(d, t) \/ t \in d.connToTransactionIdsMap[c]

\* A row whose key is the null key (BEGIN, COMMIT, ROLLBACK) carries a nil
\* value: in the staging store it only makes the store exist.
AddTransaction(d, t, k, g, v, c) ==
    LET cur == IF t \in DOMAIN d.transactionStoreMap
               THEN d.transactionStoreMap[t] ELSE EmptyStore
    IN IF ~isTransactionIdAllowedForConnection(d, t, c)
       THEN [db |-> d, ok |-> FALSE]
       ELSE [db |-> [d EXCEPT
                       !.connToTransactionIdsMap[c] = @ \cup {t},
                       !.transactionStoreMap =
                           MapPut(@, t, IF k = EmptyKey THEN cur ELSE StorePut(cur, k, g, v))],
             ok |-> TRUE]

\* ClearTransactionStore with a bug: the isolation level of the transaction
\* is left behind.
ClearTransactionStoreKeepLevel(d, t) ==
    [ReleaseAllLocks(d, t) EXCEPT
        !.transactionStoreMap = MapDelete(@, t),
        !.txnStartGsnMap = MapDelete(@, t),
        !.written[t] = NoWrites,
        !.lastGet[t] = NoGets,
        !.beginVals[t] = [k \in Keys |-> {}],
        !.sinceBegin[t] = {}]

ClearTransactionStore(d, t) ==
    [ReleaseAllLocks(d, t) EXCEPT
        !.transactionStoreMap = MapDelete(@, t),
        !.txnToIsolationLevelMap = MapDelete(@, t),
        !.txnStartGsnMap = MapDelete(@, t),
        !.written[t] = NoWrites,
        !.lastGet[t] = NoGets,
        !.beginVals[t] = [k \in Keys |-> {}],
        !.sinceBegin[t] = {}]

EnsureIsolationLevel(d, t, level) ==
    IF t \notin DOMAIN d.txnToIsolationLevelMap
    THEN [db |-> [d EXCEPT !.txnToIsolationLevelMap = MapPut(@, t, level)], ok |-> TRUE]
    ELSE [db |-> d, ok |-> d.txnToIsolationLevelMap[t] = level]

\* GetIsolationLevel with a bug: the default level is returned without
\* looking the transaction up.
GetIsolationLevelDefault(d, t) ==
    [db |-> d, level |-> TXN_ISOLATION_READ_COMMITTED]

GetIsolationLevel(d, t) ==
    IF t \in DOMAIN d.txnToIsolationLevelMap
    THEN [db |-> d, level |-> d.txnToIsolationLevelMap[t]]
    ELSE [db |-> [d EXCEPT !.txnToIsolationLevelMap =
                      MapPut(@, t, TXN_ISOLATION_READ_COMMITTED)],
          level |-> TXN_ISOLATION_READ_COMMITTED]

AcquireReadLock(d, t, k, level, c) ==
    IF level = TXN_ISOLATION_SNAPSHOT_ISOLATION
    THEN [db |-> d, res |-> "granted", key |-> PointKey(k)]
    ELSE AcquireLock(d, t, k, ReadLock, c)

AcquireWriteLock(d, t, k, level, c) ==
    AcquireLock(d, t, k, WriteLock, c)

\* ReleaseReadLock with a bug: every level releases right after the read.
ReleaseReadLockAlways(d, t, k, level) ==
    releaseLock(d, t, PointKey(k), ReadLock).db

ReleaseReadLock(d, t, k, level) ==
    IF level = TXN_ISOLATION_READ_COMMITTED
    THEN releaseLock(d, t, PointKey(k), ReadLock).db
    ELSE d

getVersionAtGsn(d, k, maxGsn) == GetVersionAtOrBeforeGsn(d.table, k, maxGsn)

\* ReadValue with a bug: the staging stores of all transactions are searched.
ReadValueAnyStore(d, t, k, c) ==
    LET gi == GetIsolationLevel(d, t)
        d1 == gi.db
        holders == {s \in DOMAIN d1.transactionStoreMap :
                       StoreGet(d1.transactionStoreMap[s], k) # Nil}
        staged == IF holders # {}
                  THEN StoreGet(d1.transactionStoreMap[Max(holders)], k) ELSE Nil
    IN IF ~isTransactionIdAllowedForConnection(d1, t, c)
       THEN [db |-> d1, ok |-> FALSE, v |-> Nil]
       ELSE IF staged # Nil
       THEN [db |-> d1, ok |-> TRUE, v |-> staged]
       ELSE IF gi.level = TXN_ISOLATION_SNAPSHOT_ISOLATION
       THEN IF t \notin DOMAIN d1.txnStartGsnMap
            THEN [db |-> d1, ok |-> FALSE, v |-> Nil]
            ELSE [db |-> d1, ok |-> TRUE, v |-> getVersionAtGsn(d1, k, d1.txnStartGsnMap[t])]
       ELSE [db |-> d1, ok |-> TRUE, v |-> StoreGet(d1.table, k)]

\* ReadValue with a bug: the transaction's own staging store is not read.
ReadValueCommittedOnly(d, t, k, c) ==
    LET gi == GetIsolationLevel(d, t)
        d1 == gi.db
    IN IF ~isTransactionIdAllowedForConnection(d1, t, c)
       THEN [db |-> d1, ok |-> FALSE, v |-> Nil]
       ELSE IF gi.level = TXN_ISOLATION_SNAPSHOT_ISOLATION
       THEN IF t \notin DOMAIN d1.txnStartGsnMap
            THEN [db |-> d1, ok |-> FALSE, v |-> Nil]
            ELSE [db |-> d1, ok |-> TRUE, v |-> getVersionAtGsn(d1, k, d1.txnStartGsnMap[t])]
       ELSE [db |-> d1, ok |-> TRUE, v |-> StoreGet(d1.table, k)]

ReadValue(d, t, k, c) ==
    LET gi == GetIsolationLevel(d, t)
        d1 == gi.db
        staged == IF t \in DOMAIN d1.transactionStoreMap
                  THEN StoreGet(d1.transactionStoreMap[t], k) ELSE Nil
    IN IF ~isTransactionIdAllowedForConnection(d1, t, c)
       THEN [db |-> d1, ok |-> FALSE, v |-> Nil]
       ELSE IF staged # Nil
       THEN [db |-> d1, ok |-> TRUE, v |-> staged]
       ELSE IF gi.level = TXN_ISOLATION_SNAPSHOT_ISOLATION
       THEN IF t \notin DOMAIN d1.txnStartGsnMap
            THEN [db |-> d1, ok |-> FALSE, v |-> Nil]
            ELSE [db |-> d1, ok |-> TRUE, v |-> getVersionAtGsn(d1, k, d1.txnStartGsnMap[t])]
       ELSE [db |-> d1, ok |-> TRUE, v |-> StoreGet(d1.table, k)]

validateFirstCommitterWins(d, t, k) ==
    /\ t \in DOMAIN d.txnStartGsnMap
    /\ HasKey(d.table, k) => ~(GetLatestGsn(d.table, k) > d.txnStartGsnMap[t])

ValidateWrite(d, t, k) ==
    LET gi == GetIsolationLevel(d, t) IN
    [db |-> gi.db,
     ok |-> IF gi.level = TXN_ISOLATION_SNAPSHOT_ISOLATION
            THEN validateFirstCommitterWins(gi.db, t, k) ELSE TRUE]

ReadRangeValues(d, t, startKey, endKey, c) ==
    LET gi == GetIsolationLevel(d, t)
        d1 == gi.db
        result == IF t \in DOMAIN d1.transactionStoreMap
                  THEN ScanRange(d1.transactionStoreMap[t], startKey, endKey)
                  ELSE EmptyStore
        allInRange == ScanRange(d1.table, startKey, endKey)
        startGsn == d1.txnStartGsnMap[t]
        bufferResults ==
            IF gi.level = TXN_ISOLATION_SNAPSHOT_ISOLATION
            THEN [k \in {x \in DOMAIN allInRange : getVersionAtGsn(d1, x, startGsn) # Nil}
                    |-> getVersionAtGsn(d1, k, startGsn)]
            ELSE allInRange
    IN IF ~isTransactionIdAllowedForConnection(d1, t, c)
       THEN [db |-> d1, ok |-> FALSE, results |-> EmptyStore]
       ELSE IF gi.level = TXN_ISOLATION_SNAPSHOT_ISOLATION /\ t \notin DOMAIN d1.txnStartGsnMap
       THEN [db |-> d1, ok |-> FALSE, results |-> EmptyStore]
       ELSE [db |-> d1, ok |-> TRUE,
             results |-> [k \in DOMAIN result \cup DOMAIN bufferResults |->
                            IF k \in DOMAIN result THEN result[k] ELSE bufferResults[k]]]

ReadFilteredValues(d, t, cond, c) ==
    LET gi == GetIsolationLevel(d, t)
        d1 == gi.db
        result == IF t \in DOMAIN d1.transactionStoreMap
                  THEN ScanWithFilter(d1.transactionStoreMap[t], cond)
                  ELSE EmptyStore
        startGsn == d1.txnStartGsnMap[t]
        bufferResults ==
            IF gi.level = TXN_ISOLATION_SNAPSHOT_ISOLATION
            THEN [k \in {x \in DOMAIN d1.table :
                            /\ StoreGet(d1.table, x) # Nil
                            /\ getVersionAtGsn(d1, x, startGsn) # Nil
                            /\ EvalCond(cond, x, getVersionAtGsn(d1, x, startGsn))}
                    |-> StoreGet(d1.table, k)]
            ELSE ScanWithFilter(d1.table, cond)
    IN IF ~isTransactionIdAllowedForConnection(d1, t, c)
       THEN [db |-> d1, ok |-> FALSE, results |-> EmptyStore]
       ELSE IF gi.level = TXN_ISOLATION_SNAPSHOT_ISOLATION /\ t \notin DOMAIN d1.txnStartGsnMap
       THEN [db |-> d1, ok |-> FALSE, results |-> EmptyStore]
       ELSE [db |-> d1, ok |-> TRUE,
             results |-> [k \in DOMAIN result \cup DOMAIN bufferResults |->
                            IF k \in DOMAIN result THEN result[k] ELSE bufferResults[k]]]

\* ---------------------------------------------------------------- handlers
Idle == [op |-> "idle", phase |-> "", txn |-> 0, level |-> "", auto |-> FALSE,
         key |-> 0, val |-> Nil, lockKey |-> PointKey(0), waiting |-> FALSE,
         todo |-> {}, results |-> EmptyStore, startKey |-> 0, endKey |-> 0, cond |-> 0,
         foreign |-> FALSE]

NoResp == [op |-> "none"]

\* The error of AcquireLock, AcquireRangeLock and AcquirePredicateLock when
\* wouldCauseDeadlock answers true
DeadlockDetected == "deadlock detected"

\* The error of AcquireLock, AcquireRangeLock and AcquirePredicateLock when
\* the timer fires
LockTimeout == "lock acquisition timeout"

\* The error of validateFirstCommitterWins
WriteWriteConflict == "write-write conflict detected - another transaction committed first"

\* What the response of a handler is measured against: the caller's own
\* writes, the keys that have no committed version, and its earlier GETs,
\* all taken when the handler's body starts.
Pre(d, op, c, t, k, level) ==
    [op |-> op, conn |-> c, txn |-> t, key |-> k, level |-> level,
     writes |-> d.written[t],
     absent |-> Keys \ DOMAIN d.table,
     prevGet |-> d.lastGet[t],
     beginVals |-> d.beginVals[t],
     sinceBegin |-> d.sinceBegin[t]]

Done(pre, status, cleared, results) ==
    [op |-> pre.op, conn |-> pre.conn, txn |-> pre.txn, key |-> pre.key,
     level |-> pre.level, writes |-> pre.writes, absent |-> pre.absent,
     prevGet |-> pre.prevGet, beginVals |-> pre.beginVals,
     sinceBegin |-> pre.sinceBegin,
     status |-> status, cleared |-> cleared, results |-> results, err |-> ""]

\* Every error on a transaction path: ClearTransactionStore, then the error.
Fail(d, pre) ==
    [db |-> ClearTransactionStore(d, pre.txn),
     resp |-> Done(pre, "error", TRUE, EmptyStore),
     pend |-> Idle]

\* BufferStore.Put of a committed version
BufferStorePut(d, t, k, g, v) ==
    [d EXCEPT !.table = StorePut(@, k, g, v),
              !.sinceBegin = [s \in TxnIds |->
                                 IF s # t /\ s \in DOMAIN d.txnStartGsnMap
                                 THEN @[s] \cup {k} ELSE @[s]]]

Visible(results) ==
    [k \in {x \in DOMAIN results : results[x] # TypeTombstone} |-> results[k]]

execBegin(d, c, level) ==
    LET d1 == GetNewTransactionId(d)
        t == d1.currentTransactionId
        ei == EnsureIsolationLevel(d1, t, level)
        dg == GetNewGsn(ei.db)
        g == dg.gsn
        d2 == [dg EXCEPT
                 !.txnStartGsnMap =
                     IF level = TXN_ISOLATION_SNAPSHOT_ISOLATION THEN MapPut(@, t, g) ELSE @,
                 !.beginVals[t] = [k \in Keys |-> ValuesOf(d.table, k)],
                 !.sinceBegin[t] = {}]
        at == AddTransaction(d2, t, EmptyKey, g, Nil, c)
        pre == Pre(d, "BEGIN", c, t, 0, level)
    IN IF ~ei.ok THEN [db |-> ei.db, resp |-> Done(pre, "error", FALSE, EmptyStore), pend |-> Idle]
       ELSE IF ~at.ok THEN Fail(at.db, pre)
       ELSE [db |-> AddTransactionToWal(at.db,
                       NewTransactionRow(t, "BEGIN", TRANSACTION_STATE_QUEUED,
                                         EmptyKey, g, Nil, Nil)),
             resp |-> Done(pre, "OK", FALSE, EmptyStore), pend |-> Idle]

\* execPut / execDelete with a bug: an auto-commit write does not clear its
\* transient transaction once it is applied.
execWriteKeepTransient(d, op, c, t, k, v, auto, level) ==
    LET pre == Pre(d, op, c, t, k, level)
        d1 == GetNewGsn(d)
        g == d1.gsn
        rv == ReadValue(d1, t, k, c)
        vw == ValidateWrite(rv.db, t, k)
        at == AddTransaction(vw.db, t, k, g, v, c)
        transactionRow == NewTransactionRow(t, op,
                              IF auto THEN TRANSACTION_STATE_COMMIT
                              ELSE TRANSACTION_STATE_QUEUED, k, g, rv.v, v)
        d4 == [AddTransactionToWal(at.db, transactionRow) EXCEPT
                  !.written[t][k] = [val |-> v, gsn |-> g, gsns |-> @.gsns \cup {g}],
                  !.lastGet[t][k] = Nil]
    IN IF ~rv.ok THEN Fail(rv.db, pre)
       ELSE IF ~vw.ok
       THEN [Fail(vw.db, pre) EXCEPT
                !.resp.err = IF t \in DOMAIN vw.db.txnStartGsnMap
                             THEN WriteWriteConflict ELSE @]
       ELSE IF ~at.ok THEN Fail(at.db, pre)
       ELSE IF auto
       THEN [db |-> BufferStorePut(d4, t, k, g, v),
             resp |-> Done(pre, "OK", TRUE, EmptyStore), pend |-> Idle]
       ELSE [db |-> d4, resp |-> Done(pre, "QUEUED", FALSE, EmptyStore), pend |-> Idle]

\* execPut / execDelete after the write lock was granted
\* execPut / execDelete after GetNewGsn has returned g
execWriteAt(d1, g, op, c, t, k, v, auto, level) ==
    LET pre == Pre(d1, op, c, t, k, level)
        rv == ReadValue(d1, t, k, c)
        vw == ValidateWrite(rv.db, t, k)
        at == AddTransaction(vw.db, t, k, g, v, c)
        transactionRow == NewTransactionRow(t, op,
                              IF auto THEN TRANSACTION_STATE_COMMIT
                              ELSE TRANSACTION_STATE_QUEUED, k, g, rv.v, v)
        d4 == [AddTransactionToWal(at.db, transactionRow) EXCEPT
                  !.written[t][k] = [val |-> v, gsn |-> g, gsns |-> @.gsns \cup {g}],
                  !.lastGet[t][k] = Nil]
    IN IF ~rv.ok THEN Fail(rv.db, pre)
       ELSE IF ~vw.ok
       THEN [Fail(vw.db, pre) EXCEPT
                !.resp.err = IF t \in DOMAIN vw.db.txnStartGsnMap
                             THEN WriteWriteConflict ELSE @]
       ELSE IF ~at.ok THEN Fail(at.db, pre)
       ELSE IF auto
       THEN [db |-> ClearTransactionStore(BufferStorePut(d4, t, k, g, v), t),
             resp |-> Done(pre, "OK", TRUE, EmptyStore), pend |-> Idle]
       ELSE [db |-> d4, resp |-> Done(pre, "QUEUED", FALSE, EmptyStore), pend |-> Idle]

execWrite(d, op, c, t, k, v, auto, level) ==
    LET d1 == GetNewGsn(d) IN
    execWriteAt(d1, d1.gsn, op, c, t, k, v, auto, level)

\* execGet after the read lock was granted; the deferred ReleaseReadLock
\* runs on every return path.
execGet(d, c, t, k, level) ==
    LET pre == Pre(d, "GET", c, t, k, level)
        rv == ReadValue(d, t, k, c)
        staging == level \in {TXN_ISOLATION_REPEATABLE_READ, TXN_ISOLATION_SNAPSHOT_ISOLATION}
        g == IF HasKey(rv.db.table, k) THEN GetLatestGsn(rv.db.table, k) ELSE 0
        at == IF staging THEN AddTransaction(rv.db, t, k, g, rv.v, c)
              ELSE [db |-> rv.db, ok |-> TRUE]
        d3 == [(IF staging
                THEN AddTransactionToWal(at.db,
                        NewTransactionRow(t, "GET", TRANSACTION_STATE_QUEUED,
                                          k, g, Nil, rv.v))
                ELSE at.db)
                 EXCEPT !.lastGet[t][k] = IF rv.v \in Vals THEN rv.v ELSE @]
    IN IF ~rv.ok
       THEN [Fail(rv.db, pre) EXCEPT !.db = ReleaseReadLock(@, t, k, level)]
       ELSE IF ~at.ok
       THEN [Fail(at.db, pre) EXCEPT !.db = ReleaseReadLock(@, t, k, level)]
       ELSE [db |-> ReleaseReadLock(d3, t, k, level),
             resp |-> Done(pre, "value", FALSE, [x \in {k} |-> rv.v]),
             pend |-> Idle]

addReadValueToTxnStore(d, t, k, v, level, c) ==
    LET g == IF level = TXN_ISOLATION_SNAPSHOT_ISOLATION
             THEN (IF t \in DOMAIN d.txnStartGsnMap THEN d.txnStartGsnMap[t] ELSE 0)
             ELSE (IF HasKey(d.table, k) THEN GetLatestGsn(d.table, k) ELSE 0)
    IN IF level = TXN_ISOLATION_READ_COMMITTED
       THEN [db |-> d, ok |-> TRUE]
       ELSE LET at == AddTransaction(d, t, k, g, v, c) IN
            IF ~at.ok THEN at
            ELSE [at EXCEPT !.db = AddTransactionToWal(@,
                      NewTransactionRow(t, "GET", TRANSACTION_STATE_QUEUED,
                                        k, g, Nil, v))]

\* addReadValuesToTxnStoreByAcquiringLocks where no lock is taken (every
\* level but REPEATABLE_READ): the keys are staged one after the other.
RECURSIVE stageEach(_, _, _, _, _, _)
stageEach(d, t, results, todo, level, c) ==
    IF todo = {}
    THEN [db |-> d, ok |-> TRUE]
    ELSE LET k == CHOOSE x \in todo : TRUE
             ar == addReadValueToTxnStore(d, t, k, results[k], level, c)
         IN IF ~ar.ok THEN ar
            ELSE stageEach(ar.db, t, results, todo \ {k}, level, c)

\* RGET / COUNT once their results are read
afterRead(d, pre, p, results) ==
    IF p.level = TXN_ISOLATION_REPEATABLE_READ /\ DOMAIN results # {}
    THEN [db |-> d, resp |-> NoResp,
          pend |-> [p EXCEPT !.phase = "loop", !.waiting = FALSE,
                             !.todo = DOMAIN results, !.results = results]]
    ELSE LET se == stageEach(d, p.txn, results, DOMAIN results, p.level, pre.conn) IN
         IF ~se.ok THEN Fail(se.db, pre)
         ELSE [db |-> se.db, resp |-> Done(pre, "value", FALSE, Visible(results)),
               pend |-> Idle]

\* execRget after the range lock (SERIALIZABLE only) was granted
execRget(d, c, p) ==
    LET pre == Pre(d, "RGET", c, p.txn, 0, p.level)
        rr == ReadRangeValues(d, p.txn, p.startKey, p.endKey, c)
    IN IF ~rr.ok THEN Fail(rr.db, pre)
       ELSE afterRead(rr.db, pre, p, rr.results)

\* execCount after the predicate lock (SERIALIZABLE only) was granted
execCount(d, c, p) ==
    LET pre == Pre(d, "COUNT", c, p.txn, 0, p.level)
        rf == ReadFilteredValues(d, p.txn, p.cond, c)
    IN IF ~rf.ok THEN Fail(rf.db, pre)
       ELSE afterRead(rf.db, pre, p, rf.results)

\* One iteration of addReadValuesToTxnStoreByAcquiringLocks under
\* REPEATABLE_READ, after the read lock on k was granted.
loopStaged(d, c, p, k) ==
    LET pre == Pre(d, p.op, c, p.txn, 0, p.level)
        ar == addReadValueToTxnStore(d, p.txn, k, p.results[k], p.level, c)
    IN IF ~ar.ok THEN Fail(ar.db, pre)
       ELSE IF p.todo \ {k} = {}
       THEN [db |-> ar.db, resp |-> Done(pre, "value", FALSE, Visible(p.results)),
             pend |-> Idle]
       ELSE [db |-> ar.db, resp |-> NoResp,
             pend |-> [p EXCEPT !.todo = @ \ {k}, !.waiting = FALSE]]

\* execCommit with a bug: the staged entries are applied before they are
\* validated.
execCommitApplyFirst(d, c, t) ==
    LET pre == Pre(d, "COMMIT", c, t, 0, "")
        d1 == GetNewGsn(d)
        store == d1.transactionStoreMap[t]
        value(k) == StoreGet(store, k)
        bufferValue(k) == StoreGet(d1.table, k)
        considered == {k \in DOMAIN store :
                          /\ value(k) # Nil
                          /\ ~(bufferValue(k) # Nil /\ value(k) = bufferValue(k))}
        conflict(k) ==
            \/ ~HasKey(d1.table, k)
            \/ GetLatestGsn(d1.table, k) > GetLatestGsn(store, k)
            \/ ~ValidateWrite(d1, t, k).ok
        RECURSIVE applyEach(_, _)
        applyEach(dd, todo) ==
            IF todo = {} THEN dd
            ELSE LET k == CHOOSE x \in todo : TRUE IN
                 applyEach(BufferStorePut(dd, t, k, GetLatestGsn(store, k), value(k)),
                           todo \ {k})
        d2 == applyEach(d1, considered)
        at == AddTransaction(d2, t, EmptyKey, d2.gsn, Nil, c)
    IN IF IsNewTransactionId(d1, t)
       THEN [db |-> d1, resp |-> Done(pre, "error", FALSE, EmptyStore), pend |-> Idle]
       ELSE IF \E k \in considered : conflict(k) THEN Fail(d2, pre)
       ELSE IF ~at.ok THEN Fail(at.db, pre)
       ELSE [db |-> ClearTransactionStore(
                       AddTransactionToWal(at.db,
                          NewTransactionRow(t, "COMMIT", TRANSACTION_STATE_COMMIT,
                                            EmptyKey, d2.gsn, Nil, Nil)), t),
             resp |-> Done(pre, "OK", TRUE, EmptyStore), pend |-> Idle]

execCommit(d, c, t) ==
    LET pre == Pre(d, "COMMIT", c, t, 0, "")
        d1 == GetNewGsn(d)
        store == d1.transactionStoreMap[t]
        value(k) == StoreGet(store, k)
        bufferValue(k) == StoreGet(d1.table, k)
        considered == {k \in DOMAIN store :
                          /\ value(k) # Nil
                          /\ ~(bufferValue(k) # Nil /\ value(k) = bufferValue(k))}
        conflict(k) ==
            \/ ~HasKey(d1.table, k)
            \/ GetLatestGsn(d1.table, k) > GetLatestGsn(store, k)
            \/ ~ValidateWrite(d1, t, k).ok
        at == AddTransaction(d1, t, EmptyKey, d1.gsn, Nil, c)
        RECURSIVE applyEach(_, _)
        applyEach(dd, todo) ==
            IF todo = {} THEN dd
            ELSE LET k == CHOOSE x \in todo : TRUE IN
                 applyEach(BufferStorePut(dd, t, k, GetLatestGsn(store, k), value(k)),
                           todo \ {k})
    IN IF IsNewTransactionId(d1, t)
       THEN [db |-> d1, resp |-> Done(pre, "error", FALSE, EmptyStore), pend |-> Idle]
       ELSE IF \E k \in considered : conflict(k) THEN Fail(d1, pre)
       ELSE IF ~at.ok THEN Fail(at.db, pre)
       ELSE [db |-> ClearTransactionStore(
                       applyEach(AddTransactionToWal(at.db,
                                    NewTransactionRow(t, "COMMIT", TRANSACTION_STATE_COMMIT,
                                                      EmptyKey, d1.gsn, Nil, Nil)),
                                 considered), t),
             resp |-> Done(pre, "OK", TRUE, EmptyStore), pend |-> Idle]

\* execRollback with a bug: the staged entries are applied to the table, as
\* a COMMIT does, before the transaction is cleared.
execRollbackApplying(d, c, t) ==
    LET pre == Pre(d, "ROLLBACK", c, t, 0, "")
        d1 == GetNewGsn(d)
        at == AddTransaction(d1, t, EmptyKey, d1.gsn, Nil, c)
        store == d1.transactionStoreMap[t]
        RECURSIVE applyEach(_, _)
        applyEach(dd, todo) ==
            IF todo = {} THEN dd
            ELSE LET k == CHOOSE x \in todo : TRUE IN
                 applyEach(BufferStorePut(dd, t, k, GetLatestGsn(store, k), StoreGet(store, k)),
                           todo \ {k})
    IN IF IsNewTransactionId(d, t)
       THEN [db |-> d, resp |-> Done(pre, "error", FALSE, EmptyStore), pend |-> Idle]
       ELSE IF ~at.ok THEN Fail(at.db, pre)
       ELSE [db |-> ClearTransactionStore(
                       applyEach(AddTransactionToWal(at.db,
                                    NewTransactionRow(t, "ROLLBACK", TRANSACTION_STATE_ROLLBACK,
                                                      EmptyKey, d1.gsn, Nil, Nil)),
                                 DOMAIN store), t),
             resp |-> Done(pre, "OK", TRUE, EmptyStore), pend |-> Idle]

execRollback(d, c, t) ==
    LET pre == Pre(d, "ROLLBACK", c, t, 0, "")
        d1 == GetNewGsn(d)
        at == AddTransaction(d1, t, EmptyKey, d1.gsn, Nil, c)
    IN IF IsNewTransactionId(d, t)
       THEN [db |-> d, resp |-> Done(pre, "error", FALSE, EmptyStore), pend |-> Idle]
       ELSE IF ~at.ok THEN Fail(at.db, pre)
       ELSE [db |-> ClearTransactionStore(
                       AddTransactionToWal(at.db,
                          NewTransactionRow(t, "ROLLBACK", TRANSACTION_STATE_ROLLBACK,
                                            EmptyKey, d1.gsn, Nil, Nil)), t),
             resp |-> Done(pre, "OK", TRUE, EmptyStore), pend |-> Idle]

\* ---------------------------------------------------------------- recovery
\* slices.Index: the first position of x in the list, 0 when it has none.
Index(list, x) ==
    IF \E i \in 1..Len(list) : list[i] = x
    THEN CHOOSE i \in 1..Len(list) : list[i] = x /\ \A j \in 1..(i - 1) : list[j] # x
    ELSE 0

\* slices.Delete(list, i, i+1)
DeleteAt(list, i) == SubSeq(list, 1, i - 1) \o SubSeq(list, i + 1, Len(list))

PutTxnRowToBufferStore(tbl, row) ==
    StorePut(tbl, row.Key, row.Gsn, row.NewValue)

\* First pass of recoverStoreFromWal: the ids of the rows in COMMIT state.
RECURSIVE readCommitted(_, _)
readCommitted(w, activeTransactionIds) ==
    LET r == ReadRow(w) IN
    IF r.eof THEN [w |-> r.w, activeTransactionIds |-> activeTransactionIds]
    ELSE readCommitted(r.w,
            IF r.row.State = TRANSACTION_STATE_COMMIT
            THEN Append(activeTransactionIds, r.row.TransactionId)
            ELSE activeTransactionIds)

\* Second pass with a bug: the rows are not filtered by the committed ids.
RECURSIVE applyCommittedUnfiltered(_, _, _)
applyCommittedUnfiltered(w, activeTransactionIds, tbl) ==
    LET r == ReadRow(w) IN
    IF r.eof THEN [w |-> r.w, table |-> tbl]
    ELSE applyCommittedUnfiltered(r.w, activeTransactionIds,
            IF r.row.Operation \in {"PUT", "DELETE"}
            THEN PutTxnRowToBufferStore(tbl, r.row)
            ELSE tbl)

\* Second pass: the PUT and DELETE rows of those ids go to the table.
RECURSIVE applyCommitted(_, _, _)
applyCommitted(w, activeTransactionIds, tbl) ==
    LET r == ReadRow(w)
        transactionIdx == Index(activeTransactionIds, r.row.TransactionId)
    IN IF r.eof THEN [w |-> r.w, table |-> tbl]
       ELSE IF transactionIdx = 0 THEN applyCommitted(r.w, activeTransactionIds, tbl)
       ELSE applyCommitted(r.w,
               IF r.row.State = TRANSACTION_STATE_ROLLBACK
               THEN DeleteAt(activeTransactionIds, transactionIdx)
               ELSE activeTransactionIds,
               IF r.row.Operation \in {"PUT", "DELETE"}
               THEN PutTxnRowToBufferStore(tbl, r.row)
               ELSE tbl)

\* recoverStoreFromWal with a bug: the rows are dropped from the file once
\* they were replayed.
recoverStoreFromWalTruncating(w) ==
    LET first == readCommitted(w, <<>>)
        second == applyCommitted(ResetOffsetToFirstRow(first.w),
                                 first.activeTransactionIds, EmptyStore)
    IN [second EXCEPT !.w = [@ EXCEPT !.rows = <<>>, !.lso = 1]]

recoverStoreFromWal(w) ==
    LET first == readCommitted(w, <<>>) IN
    applyCommitted(ResetOffsetToFirstRow(first.w), first.activeTransactionIds, EmptyStore)

\* NewDBManager: the state of a process that starts on the WAL file.
NewDBManager(file, useWal) ==
    LET gb == AllocateGsnBatch(NewWalManager(file))
        tb == AllocateTransactionIdBatch(gb.w)
        rec == recoverStoreFromWal(tb.w)
    IN [table |-> rec.table,
        transactionStoreMap |-> [t \in {} |-> EmptyStore],
        connToTransactionIdsMap |-> [c \in Conns |-> {}],
        txnToIsolationLevelMap |-> [t \in {} |-> ""],
        txnStartGsnMap |-> [t \in {} |-> 0],
        lockTable |-> [s \in LockKeys |-> <<>>],
        transactionLocks |-> [t \in TxnIds |-> <<>>],
        waitingRequests |-> [s \in LockKeys |-> <<>>],
        acquiredCh |-> {},
        gsn |-> gb.start,
        currentTransactionId |-> tb.start,
        written |-> [t \in TxnIds |-> NoWrites],
        lastGet |-> [t \in TxnIds |-> NoGets],
        beginVals |-> [t \in TxnIds |-> [k \in Keys |-> {}]],
        sinceBegin |-> [t \in TxnIds |-> {}],
        UseWal |-> useWal,
        walManager |-> rec.w,
        gsnManager |-> [gsnBatchStart |-> gb.start, gsnBatchEnd |-> gb.end, m |-> Nil],
        transactionIdBatch |-> [transactionIdBatchStart |-> tb.start,
                                transactionIdBatchEnd |-> tb.end, m |-> Nil]]

\* The goroutines that call GetNewGsn in the allocator workload
Goroutines == {"g1", "g2"}
IdleCaller == [pc |-> "idle", toReturn |-> 0, calls |-> 0, start |-> 0, end |-> 0,
               key |-> 0, value |-> "", puts |-> [k \in Keys |-> 0]]

\* ----------------------------------------------------------------- actions
\* The state after construction on an empty data directory, with n requests
\* that the clients are going to send and the configuration's useWal.
InitState(dm, n, clients) ==
    /\ table = dm.table
    /\ transactionStoreMap = dm.transactionStoreMap
    /\ connToTransactionIdsMap = dm.connToTransactionIdsMap
    /\ txnToIsolationLevelMap = dm.txnToIsolationLevelMap
    /\ txnStartGsnMap = dm.txnStartGsnMap
    /\ lockTable = dm.lockTable
    /\ transactionLocks = dm.transactionLocks
    /\ waitingRequests = dm.waitingRequests
    /\ acquiredCh = dm.acquiredCh
    /\ gsn = dm.gsn
    /\ currentTransactionId = dm.currentTransactionId
    /\ pending = [c \in clients |-> Idle]
    /\ resp = NoResp
    /\ written = dm.written
    /\ lastGet = dm.lastGet
    /\ beginVals = dm.beginVals
    /\ sinceBegin = dm.sinceBegin
    /\ requests = n
    /\ UseWal = dm.UseWal
    /\ walManager = dm.walManager
    /\ gsnManager = dm.gsnManager
    /\ transactionIdBatch = dm.transactionIdBatch
    /\ callers = [g \in Goroutines |-> IdleCaller]
    /\ handed = <<>>

InitDB(n, useWal) == InitState(NewDBManager(EmptyWalFile, useWal), n, Conns)

InitWith(n) == InitDB(n, FALSE)

\* A connection hands the next request of its client to a handler.
Accept(c) ==
    /\ pending[c] = Idle
    /\ requests > 0
    /\ requests' = requests - 1

Finish(c, r) ==
    /\ SetDB(r.db)
    /\ resp' = r.resp
    /\ pending' = [pending EXCEPT ![c] = r.pend]

\* The rest of a handler once its lock request was granted
AfterLock(d, c, p) ==
    IF p.op \in {"PUT", "DELETE"}
    THEN execWrite(d, p.op, c, p.txn, p.key, p.val, p.auto, p.level)
    ELSE IF p.op = "GET" THEN execGet(d, c, p.txn, p.key, p.level)
    ELSE IF p.phase = "loop" THEN loopStaged(d, c, p, p.key)
    ELSE IF p.op = "RGET" THEN execRget(d, c, p)
    ELSE execCount(d, c, p)

\* A handler at a lock request: it goes on, fails with a deadlock, or waits.
AtLock(c, p, acq) ==
    IF acq.res = "granted"
    THEN Finish(c, AfterLock(acq.db, c, p))
    ELSE IF acq.res = "deadlock"
    THEN Finish(c, [Fail(acq.db, Pre(acq.db, p.op, c, p.txn, p.key, p.level)) EXCEPT
                       !.resp.err = DeadlockDetected])
    ELSE /\ SetDB(acq.db)
         /\ pending' = [pending EXCEPT ![c] = [p EXCEPT !.waiting = TRUE, !.lockKey = acq.key]]
         /\ resp' = NoResp

\* ensureX: a request names a transaction that exists, or names none and the
\* handler takes a new id (auto-commit).
InTxn(t) == [auto |-> FALSE, t |-> t]
AutoCommit == [auto |-> TRUE, t |-> GetNewTransactionId(DB).currentTransactionId]

\* History: the request names a transaction that another connection began.
Foreign(c, tg) == ~tg.auto /\ tg.t \notin connToTransactionIdsMap[c]

\* The error of ensurePut, ensureDelete, ensureGet, ensureRget, ensureCount
TransactionIdNotAllowed == "transactionId not allowed"

\* ensureX with a bug: every transaction id that a request supplies passes.
ensureTransactionIdAny(d, t) ==
    TRUE

\* ensureX for a request that supplies a transaction id: the id must be the
\* id of a transaction that has a staging store.
ensureTransactionId(d, t) ==
    ~IsNewTransactionId(d, t)

Admitted(tg) ==
    IF tg.auto THEN currentTransactionId < MaxTxnId
    ELSE ensureTransactionId(DB, tg.t)

\* The early return of ensureX: the request is answered with an error and
\* its handler does not run.
Rejected(c, op, k, t) ==
    /\ Accept(c)
    /\ ~ensureTransactionId(DB, t)
    /\ Finish(c, [db |-> DB,
                  resp |-> [Done(Pre(DB, op, c, t, k, ""), "error", FALSE, EmptyStore)
                               EXCEPT !.err = TransactionIdNotAllowed],
                  pend |-> Idle])

Enter(tg) ==
    GetIsolationLevel(IF tg.auto THEN GetNewTransactionId(DB) ELSE DB, tg.t)

Begin(c, level) ==
    /\ Accept(c)
    /\ currentTransactionId < MaxTxnId
    /\ gsn < MaxGsn
    /\ Finish(c, execBegin(DB, c, level))

Write(c, op, k, v, tg) ==
    LET gi == Enter(tg)
        p == [Idle EXCEPT !.op = op, !.txn = tg.t, !.level = gi.level,
                          !.auto = tg.auto, !.key = k, !.val = v,
                          !.foreign = Foreign(c, tg)]
    IN /\ Len(transactionLocks[tg.t]) < MaxLocks
       /\ AtLock(c, p, AcquireWriteLock(gi.db, tg.t, k, gi.level, c))

Put(c, k, v, tg) ==
    /\ Accept(c)
    /\ Admitted(tg)
    /\ gsn < MaxGsn
    /\ Write(c, "PUT", k, v, tg)

Delete(c, k, tg) ==
    /\ Accept(c)
    /\ Admitted(tg)
    /\ gsn < MaxGsn
    /\ Write(c, "DELETE", k, TypeTombstone, tg)

Get(c, k, tg) ==
    /\ Accept(c)
    /\ Admitted(tg)
    /\ LET gi == Enter(tg)
           p == [Idle EXCEPT !.op = "GET", !.txn = tg.t, !.level = gi.level,
                             !.auto = tg.auto, !.key = k, !.foreign = Foreign(c, tg)]
       IN /\ Len(transactionLocks[tg.t]) < MaxLocks
          /\ AtLock(c, p, AcquireReadLock(gi.db, tg.t, k, gi.level, c))

Rget(c, startKey, endKey, tg) ==
    /\ Accept(c)
    /\ Admitted(tg)
    /\ startKey <= endKey
    /\ LET gi == Enter(tg)
           p == [Idle EXCEPT !.op = "RGET", !.phase = "lock", !.txn = tg.t,
                             !.level = gi.level, !.auto = tg.auto,
                             !.startKey = startKey, !.endKey = endKey,
                             !.foreign = Foreign(c, tg)]
       IN /\ Len(transactionLocks[tg.t]) + Cardinality(Keys) <= MaxLocks
          /\ AtLock(c, p,
                    IF gi.level = TXN_ISOLATION_SERIALIZABLE
                    THEN AcquireRangeLock(gi.db, tg.t, startKey, endKey, c)
                    ELSE [db |-> gi.db, res |-> "granted", key |-> RangeKey(startKey, endKey)])

Count(c, cond, tg) ==
    /\ Accept(c)
    /\ Admitted(tg)
    /\ LET gi == Enter(tg)
           p == [Idle EXCEPT !.op = "COUNT", !.phase = "lock", !.txn = tg.t,
                             !.level = gi.level, !.auto = tg.auto, !.cond = cond,
                             !.foreign = Foreign(c, tg)]
       IN /\ Len(transactionLocks[tg.t]) + Cardinality(Keys) <= MaxLocks
          /\ AtLock(c, p,
                    IF gi.level = TXN_ISOLATION_SERIALIZABLE
                    THEN AcquirePredicateLock(gi.db, tg.t, cond, c)
                    ELSE [db |-> gi.db, res |-> "granted", key |-> PredicateKey(cond)])

\* The next key of addReadValuesToTxnStoreByAcquiringLocks (map order)
LoopStep(c) ==
    /\ UNCHANGED requests
    /\ pending[c].phase = "loop"
    /\ ~pending[c].waiting
    /\ \E k \in pending[c].todo :
         AtLock(c, [pending[c] EXCEPT !.key = k],
                AcquireReadLock(DB, pending[c].txn, k, pending[c].level, c))

Commit(c, t) ==
    /\ Accept(c)
    /\ t <= currentTransactionId
    /\ gsn < MaxGsn
    /\ Finish(c, execCommit(DB, c, t))

Rollback(c, t) ==
    /\ Accept(c)
    /\ t <= currentTransactionId
    /\ gsn < MaxGsn
    /\ Finish(c, execRollback(DB, c, t))

\* case err := <-request.AcquiredCh
Resume(c) ==
    /\ UNCHANGED requests
    /\ pending[c].waiting
    /\ c \in acquiredCh
    /\ pending[c].op \in {"PUT", "DELETE"} => gsn < MaxGsn
    /\ Finish(c, AfterLock([DB EXCEPT !.acquiredCh = @ \ {c}], c,
                           [pending[c] EXCEPT !.waiting = FALSE]))

\* case <-time.After(timeout)
Timeout(c) ==
    /\ UNCHANGED requests
    /\ pending[c].waiting
    /\ LET p == pending[c]
           d == removeWaitingRequest([DB EXCEPT !.acquiredCh = @ \ {c}], p.txn, p.lockKey)
       IN Finish(c, [Fail(d, Pre(d, p.op, c, p.txn, p.key, p.level)) EXCEPT
                        !.resp.err = LockTimeout])

\* The process stops at any point and is started again on its WAL file; the
\* connections and their blocked handlers are gone.
Restart ==
    /\ walManager.walHeader.NextTransactionId
           < (MaxRestarts + 1) * TRANSACTION_ID_ALLOCATION_BATCH_SIZE
    /\ SetDB(NewDBManager([walHeader |-> walManager.walHeader,
                           rows |-> walManager.rows], UseWal))
    /\ pending' = [c \in Conns |-> Idle]
    /\ resp' = [op |-> "RESTART"]
    /\ UNCHANGED requests

\* ------------------------------------------------------------ workloads
\* The transactions a connection began and that are still open.
Own(c) == {InTxn(t) : t \in connToTransactionIdsMap[c] \cap DOMAIN transactionStoreMap}

\* Snapshot-isolation transactions and auto-commit writes on one key.
NextSnapshot ==
    \E c \in Conns :
        \/ Begin(c, TXN_ISOLATION_SNAPSHOT_ISOLATION)
        \/ \E v \in Vals, tg \in Own(c) \cup {AutoCommit} : Put(c, 1, v, tg)
        \/ \E tg \in Own(c) : Get(c, 1, tg)
        \/ \E tg \in Own(c) : Commit(c, tg.t)
        \/ Resume(c)
        \/ Timeout(c)

SpecSnapshot == InitWith(MaxSnapshotRequests) /\ [][NextSnapshot]_vars

\* Transactions that stage their reads (REPEATABLE_READ, SNAPSHOT_ISOLATION)
\* and auto-commit writes, point operations on one key.
NextPoint ==
    \E c \in Conns :
        \/ \E level \in {TXN_ISOLATION_REPEATABLE_READ, TXN_ISOLATION_SNAPSHOT_ISOLATION} :
               Begin(c, level)
        \/ \E v \in Vals, tg \in Own(c) \cup {AutoCommit} : Put(c, 1, v, tg)
        \/ \E tg \in Own(c) : Delete(c, 1, tg)
        \/ \E tg \in Own(c) : Get(c, 1, tg)
        \/ \E tg \in Own(c) : Commit(c, tg.t)
        \/ Resume(c)
        \/ Timeout(c)

SpecPoint == InitWith(MaxPointRequests) /\ [][NextPoint]_vars

\* Transactions of every level: writes of one key, and every kind of read.
NextReads ==
    \E c \in Conns :
        \/ \E level \in Levels : Begin(c, level)
        \/ \E v \in Vals, tg \in Own(c) \cup {AutoCommit} : Put(c, 1, v, tg)
        \/ \E tg \in Own(c) : Delete(c, 1, tg)
        \/ \E tg \in Own(c) \cup {AutoCommit} : Get(c, 1, tg)
        \/ \E tg \in Own(c) \cup {AutoCommit} : Rget(c, 1, 2, tg)
        \/ \E tg \in Own(c) \cup {AutoCommit} : Count(c, CondAll, tg)
        \/ \E tg \in Own(c) : Commit(c, tg.t)
        \/ LoopStep(c)
        \/ Resume(c)
        \/ Timeout(c)

SpecReads == InitWith(MaxReadRequests) /\ [][NextReads]_vars

\* Transactions of the levels that hold read locks, on two keys.
NextLocks ==
    \E c \in Conns :
        \/ \E level \in {TXN_ISOLATION_REPEATABLE_READ, TXN_ISOLATION_SERIALIZABLE} :
               Begin(c, level)
        \/ \E k \in Keys, tg \in Own(c) : Put(c, k, "a", tg)
        \/ \E k \in Keys, tg \in Own(c) : Get(c, k, tg)
        \/ \E tg \in Own(c) : Rget(c, 1, 2, tg)
        \/ \E tg \in Own(c) : Commit(c, tg.t)
        \/ \E tg \in Own(c) : Rollback(c, tg.t)
        \/ LoopStep(c)
        \/ Resume(c)
        \/ Timeout(c)

SpecLocks == InitWith(MaxLockRequests) /\ [][NextLocks]_vars

\* SERIALIZABLE transactions that read ranges and count: range locks and
\* predicate locks only.
NextSerial ==
    \E c \in Conns :
        \/ Begin(c, TXN_ISOLATION_SERIALIZABLE)
        \/ \E startKey \in Keys, endKey \in Keys, tg \in Own(c) :
               Rget(c, startKey, endKey, tg)
        \/ \E tg \in Own(c) : Count(c, CondAll, tg)
        \/ \E tg \in Own(c) : Commit(c, tg.t)
        \/ Resume(c)
        \/ Timeout(c)

SpecSerial == InitWith(MaxSerialRequests) /\ [][NextSerial]_vars

\* Snapshot and repeatable-read transactions that write one key and end
\* with COMMIT or ROLLBACK, also a ROLLBACK of a transaction of the
\* connection that has ended already; auto-commit writes.
NextRollback ==
    \E c \in Conns :
        \/ \E level \in {TXN_ISOLATION_REPEATABLE_READ, TXN_ISOLATION_SNAPSHOT_ISOLATION} :
               Begin(c, level)
        \/ \E v \in Vals, tg \in Own(c) \cup {AutoCommit} : Put(c, 1, v, tg)
        \/ \E tg \in Own(c) : Commit(c, tg.t)
        \/ \E t \in connToTransactionIdsMap[c] : Rollback(c, t)
        \/ Resume(c)
        \/ Timeout(c)

SpecRollback == InitWith(MaxRollbackRequests) /\ [][NextRollback]_vars

\* The transactions that are open, whoever began them.
Active == {InTxn(t) : t \in DOMAIN transactionStoreMap}

\* READ_COMMITTED transactions on one key, where a connection also names
\* the transactions of the other connection.
NextForeign ==
    \E c \in Conns :
        \/ Begin(c, TXN_ISOLATION_READ_COMMITTED)
        \/ \E tg \in Active : Put(c, 1, "a", tg)
        \/ \E tg \in Active : Delete(c, 1, tg)
        \/ \E tg \in Active : Get(c, 1, tg)
        \/ \E tg \in Active : Commit(c, tg.t)
        \/ \E tg \in Active : Rollback(c, tg.t)
        \/ Resume(c)
        \/ Timeout(c)

SpecForeign == InitWith(MaxForeignRequests) /\ [][NextForeign]_vars

\* The commands that take an optional transaction id
NamedOps == {"PUT", "DELETE", "GET", "RGET", "COUNT"}

\* The transaction ids a client of c supplies here: those of the open
\* transactions of c, and those that no open transaction has.
Named(c) ==
    {InTxn(t) : t \in {x \in TxnIds : \/ x \notin DOMAIN transactionStoreMap
                                      \/ x \in connToTransactionIdsMap[c]}}

\* READ_COMMITTED transactions, and requests that supply the id of a
\* transaction that has ended or that was never begun.
NextForged ==
    \E c \in Conns :
        \/ Begin(c, TXN_ISOLATION_READ_COMMITTED)
        \/ \E tg \in Named(c) : Put(c, 1, "a", tg)
        \/ \E tg \in Named(c) : Delete(c, 1, tg)
        \/ \E tg \in Named(c) : Get(c, 1, tg)
        \/ \E tg \in Named(c) : Rget(c, 1, 2, tg)
        \/ \E tg \in Named(c) : Count(c, CondAll, tg)
        \/ \E op \in NamedOps, t \in TxnIds : Rejected(c, op, 1, t)
        \/ \E tg \in Own(c) : Commit(c, tg.t)
        \/ Resume(c)
        \/ Timeout(c)

SpecForged == InitWith(MaxForgedRequests) /\ [][NextForged]_vars

\* The WAL enabled: snapshot-isolation transactions that write one key and
\* read it with COUNT, and auto-commit writes.
NextWal ==
    \E c \in Conns :
        \/ Begin(c, TXN_ISOLATION_SNAPSHOT_ISOLATION)
        \/ \E v \in Vals, tg \in Own(c) \cup {AutoCommit} : Put(c, 1, v, tg)
        \/ \E tg \in Own(c) : Count(c, CondAll, tg)
        \/ \E tg \in Own(c) : Commit(c, tg.t)
        \/ Resume(c)
        \/ Timeout(c)

SpecWal == InitDB(MaxWalRequests, TRUE) /\ [][NextWal]_vars

\* The WAL enabled: transactions that write or delete one key and end with
\* COMMIT or ROLLBACK, auto-commit writes, and restarts of the process.
NextRecovery ==
    \/ \E c \in Conns :
        \/ \E level \in {TXN_ISOLATION_READ_COMMITTED, TXN_ISOLATION_SNAPSHOT_ISOLATION} :
               Begin(c, level)
        \/ \E v \in Vals, tg \in Own(c) \cup {AutoCommit} : Put(c, 1, v, tg)
        \/ \E tg \in Own(c) \cup {AutoCommit} : Delete(c, 1, tg)
        \/ \E tg \in Own(c) : Commit(c, tg.t)
        \/ \E tg \in Own(c) : Rollback(c, tg.t)
        \/ Resume(c)
        \/ Timeout(c)
    \/ Restart

SpecRecovery == InitDB(MaxRecoveryRequests, TRUE) /\ [][NextRecovery]_vars

\* REPEATABLE_READ transactions that read and write two keys and hold their
\* locks until they end.
NextDeadlock ==
    \E c \in Conns :
        \/ Begin(c, TXN_ISOLATION_REPEATABLE_READ)
        \/ \E k \in Keys, tg \in Own(c) : Put(c, k, "a", tg)
        \/ \E k \in Keys, tg \in Own(c) : Get(c, k, tg)
        \/ \E tg \in Own(c) : Rollback(c, tg.t)
        \/ Resume(c)
        \/ Timeout(c)

SpecDeadlock == InitWith(MaxDeadlockRequests) /\ [][NextDeadlock]_vars

\* Two REPEATABLE_READ transactions, one per connection, that read key 1 and
\* then write it, after an auto-commit PUT gave the key its first version.
\* The clients send their PUTs once every open transaction has read the key.
HasRead(t) ==
    lastGet[t][1] \in Vals \/ written[t][1].val # Nil

NextLostUpdate ==
    \E c \in Conns :
        \/ ~HasKey(table, 1) /\ Put(c, 1, "a", AutoCommit)
        \/ HasKey(table, 1) /\ Own(c) = {} /\ Begin(c, TXN_ISOLATION_REPEATABLE_READ)
        \/ \E tg \in Own(c) : Get(c, 1, tg)
        \/ \E tg \in Own(c) :
               /\ currentTransactionId = MaxTxnId
               /\ \A t \in DOMAIN transactionStoreMap : HasRead(t)
               /\ Put(c, 1, "b", tg)
        \/ \E tg \in Own(c) : written[tg.t][1].val # Nil /\ Commit(c, tg.t)
        \/ Resume(c)
        \/ Timeout(c)

SpecLostUpdate == InitWith(MaxLostUpdateRequests) /\ [][NextLostUpdate]_vars

\* ------------------------------------------- the lock manager called directly
\* Three clients, each in the name of its own transaction, call the lock
\* manager on three keys: enough for a wait cycle of three transactions,
\* which wouldCauseDeadlock does not look for.
Clients == Conns \cup {"c3"}
CycleKeys == Keys \cup {Max(Keys) + 1}
CycleLockKeys == LockKeys \cup {PointKey(k) : k \in CycleKeys}
ClientTxn == "c1" :> 1 @@ "c2" :> 2 @@ "c3" :> MaxTxnId

NewLockManager ==
    [NewDBManager(EmptyWalFile, FALSE) EXCEPT
        !.lockTable = [s \in CycleLockKeys |-> <<>>],
        !.waitingRequests = [s \in CycleLockKeys |-> <<>>]]

LockResp(c, key, err) ==
    [op |-> "LOCK", conn |-> c, txn |-> ClientTxn[c], key |-> key, err |-> err]

\* A call of an Acquire function up to its return or its select
Acquire(c, acq) ==
    /\ pending[c] = Idle
    /\ requests > 0
    /\ requests' = requests - 1
    /\ IF acq.res = "queued"
       THEN /\ SetDB(acq.db)
            /\ pending' = [pending EXCEPT ![c] =
                              [Idle EXCEPT !.op = "LOCK", !.txn = ClientTxn[c],
                                           !.lockKey = acq.key, !.waiting = TRUE]]
            /\ resp' = NoResp
       ELSE /\ SetDB(acq.db)
            /\ pending' = pending
            /\ resp' = LockResp(c, acq.key,
                                IF acq.res = "deadlock" THEN DeadlockDetected ELSE "")

\* case err := <-request.AcquiredCh: the call returns nil
AcquireGranted(c) ==
    /\ UNCHANGED requests
    /\ pending[c].waiting
    /\ c \in acquiredCh
    /\ SetDB([DB EXCEPT !.acquiredCh = @ \ {c}])
    /\ pending' = [pending EXCEPT ![c] = Idle]
    /\ resp' = LockResp(c, pending[c].lockKey, "")

\* AcquireLock with a bug: the select has no timeout case.
AcquireTimedOutNever(c) ==
    FALSE /\ UNCHANGED vars

\* case <-time.After(timeout): the request leaves the queue, the call returns
\* the timeout error
AcquireTimedOut(c) ==
    /\ UNCHANGED requests
    /\ pending[c].waiting
    /\ SetDB(removeWaitingRequest([DB EXCEPT !.acquiredCh = @ \ {c}],
                                  ClientTxn[c], pending[c].lockKey))
    /\ pending' = [pending EXCEPT ![c] = Idle]
    /\ resp' = LockResp(c, pending[c].lockKey, LockTimeout)

ReleaseAll(c) ==
    /\ pending[c] = Idle
    /\ requests > 0
    /\ requests' = requests - 1
    /\ transactionLocks[ClientTxn[c]] # <<>>
    /\ SetDB(ReleaseAllLocks(DB, ClientTxn[c]))
    /\ UNCHANGED pending
    /\ resp' = [op |-> "RELEASE", conn |-> c, txn |-> ClientTxn[c]]

ClientKeys == "c1" :> {1, 2} @@ "c2" :> {2, Max(CycleKeys)} @@ "c3" :> {Max(CycleKeys), 1}

NextCycle ==
    \E c \in Clients :
        \/ \E k \in ClientKeys[c] :
               Acquire(c, AcquireLock(DB, ClientTxn[c], k, WriteLock, c))
        \/ c = "c1" /\ Acquire(c, AcquireLock(DB, ClientTxn[c], 2, ReadLock, c))
        \/ c = "c3" /\ Acquire(c, AcquireRangeLock(DB, ClientTxn[c], 1, 2, c))
        \/ c = "c2" /\ Acquire(c, AcquirePredicateLock(DB, ClientTxn[c], CondAll, c))
        \/ ReleaseAll(c)
        \/ AcquireGranted(c)
        \/ AcquireTimedOut(c)

SpecCycle == InitState(NewLockManager, MaxCycleRequests, Clients) /\ [][NextCycle]_vars

\* The timer of every waiting call fires unless the call returned before.
SpecCycleLive == SpecCycle /\ \A c \in Clients : WF_vars(AcquireTimedOut(c))

\* ---------------------------------------------------------- GSN allocator
\* GetNewGsn step by step, as goroutines that run it at the same time
\* interleave: the loads, adds and stores of the atomic counter, the mutex,
\* and the unguarded fields gsnBatchStart and gsnBatchEnd.
handlerVars == <<table, transactionStoreMap, connToTransactionIdsMap,
                 txnToIsolationLevelMap, txnStartGsnMap,
                 lockTable, transactionLocks, waitingRequests, acquiredCh,
                 currentTransactionId, pending, resp,
                 written, lastGet, beginVals, sinceBegin, requests,
                 UseWal, transactionIdBatch>>

\* if gm.gsn.Load() == gm.gsnBatchEnd - 1
GsnCheck(g) ==
    /\ callers[g].pc = "idle"
    /\ callers[g].calls < MaxGsnCalls
    /\ callers' = [callers EXCEPT ![g].pc =
                      IF gsn = gsnManager.gsnBatchEnd - 1 THEN "lock" ELSE "add"]
    /\ UNCHANGED <<gsn, gsnManager, walManager, handed, handlerVars>>

\* return gm.gsn.Add(1)
GsnAdd(g) ==
    /\ callers[g].pc = "add"
    /\ gsn' = gsn + 1
    /\ handed' = Append(handed, gsn + 1)
    /\ callers' = [callers EXCEPT ![g].pc = "idle", ![g].calls = @ + 1]
    /\ UNCHANGED <<gsnManager, walManager, handlerVars>>

\* gm.m.Lock()
GsnLock(g) ==
    /\ callers[g].pc = "lock"
    /\ gsnManager.m = Nil
    /\ gsnManager' = [gsnManager EXCEPT !.m = g]
    /\ callers' = [callers EXCEPT ![g].pc = "allocate"]
    /\ UNCHANGED <<gsn, walManager, handed, handlerVars>>

\* gm.walManager.AllocateGsnBatch()
GsnAllocate(g) ==
    /\ callers[g].pc = "allocate"
    /\ LET b == AllocateGsnBatch(walManager) IN
         /\ walManager' = b.w
         /\ callers' = [callers EXCEPT ![g].pc = "assign",
                                       ![g].start = b.start, ![g].end = b.end]
    /\ UNCHANGED <<gsn, gsnManager, handed, handlerVars>>

\* gm.gsnBatchStart, gm.gsnBatchEnd = ...
GsnAssign(g) ==
    /\ callers[g].pc = "assign"
    /\ gsnManager' = [gsnManager EXCEPT !.gsnBatchStart = callers[g].start,
                                        !.gsnBatchEnd = callers[g].end]
    /\ callers' = [callers EXCEPT ![g].pc = "refillAdd"]
    /\ UNCHANGED <<gsn, walManager, handed, handlerVars>>

\* toReturn := gm.gsn.Add(1)
GsnRefillAdd(g) ==
    /\ callers[g].pc = "refillAdd"
    /\ gsn' = gsn + 1
    /\ callers' = [callers EXCEPT ![g].pc = "store", ![g].toReturn = gsn + 1]
    /\ UNCHANGED <<gsnManager, walManager, handed, handlerVars>>

\* gm.gsn.Store(gm.gsnBatchStart)
GsnStore(g) ==
    /\ callers[g].pc = "store"
    /\ gsn' = gsnManager.gsnBatchStart
    /\ callers' = [callers EXCEPT ![g].pc = "unlock"]
    /\ UNCHANGED <<gsnManager, walManager, handed, handlerVars>>

\* gm.m.Unlock(); return toReturn
GsnUnlock(g) ==
    /\ callers[g].pc = "unlock"
    /\ gsnManager' = [gsnManager EXCEPT !.m = Nil]
    /\ handed' = Append(handed, callers[g].toReturn)
    /\ callers' = [callers EXCEPT ![g].pc = "idle", ![g].calls = @ + 1]
    /\ UNCHANGED <<gsn, walManager, handlerVars>>

NextGsn ==
    \E g \in Goroutines :
       \/ GsnCheck(g)
       \/ GsnAdd(g)
       \/ GsnLock(g)
       \/ GsnAllocate(g)
       \/ GsnAssign(g)
       \/ GsnRefillAdd(g)
       \/ GsnStore(g)
       \/ GsnUnlock(g)

SpecGsn == InitDB(0, TRUE) /\ [][NextGsn]_vars

\* ------------------------------------------------ transaction id allocator
\* GetNewTransactionId step by step, as goroutines that run it at the same
\* time interleave: the loads, the store and the add of the atomic counter,
\* the mutex, and the unguarded fields transactionIdBatchStart and
\* transactionIdBatchEnd.
allocatorFrame == <<table, transactionStoreMap, connToTransactionIdsMap,
                    txnToIsolationLevelMap, txnStartGsnMap,
                    lockTable, transactionLocks, waitingRequests, acquiredCh,
                    gsn, pending, resp,
                    written, lastGet, beginVals, sinceBegin, requests,
                    UseWal, gsnManager>>

\* if tm.currentTransactionId.Load() == tm.transactionIdBatchEnd - 1
TxnIdCheck(g) ==
    /\ callers[g].pc = "idle"
    /\ callers[g].calls < MaxTxnIdCalls
    /\ callers' = [callers EXCEPT ![g].pc =
                      IF currentTransactionId = transactionIdBatch.transactionIdBatchEnd - 1
                      THEN "lock" ELSE "add"]
    /\ UNCHANGED <<currentTransactionId, transactionIdBatch, walManager, handed,
                   allocatorFrame>>

\* tm.m.Lock()
TxnIdLock(g) ==
    /\ callers[g].pc = "lock"
    /\ transactionIdBatch.m = Nil
    /\ transactionIdBatch' = [transactionIdBatch EXCEPT !.m = g]
    /\ callers' = [callers EXCEPT ![g].pc = "recheck"]
    /\ UNCHANGED <<currentTransactionId, walManager, handed, allocatorFrame>>

\* the second if, under the mutex
TxnIdRecheck(g) ==
    /\ callers[g].pc = "recheck"
    /\ callers' = [callers EXCEPT ![g].pc =
                      IF currentTransactionId = transactionIdBatch.transactionIdBatchEnd - 1
                      THEN "allocate" ELSE "unlock"]
    /\ UNCHANGED <<currentTransactionId, transactionIdBatch, walManager, handed,
                   allocatorFrame>>

\* tm.walManager.AllocateTransactionIdBatch()
TxnIdAllocate(g) ==
    /\ callers[g].pc = "allocate"
    /\ LET b == AllocateTransactionIdBatch(walManager) IN
         /\ walManager' = b.w
         /\ callers' = [callers EXCEPT ![g].pc = "assign",
                                       ![g].start = b.start, ![g].end = b.end]
    /\ UNCHANGED <<currentTransactionId, transactionIdBatch, handed, allocatorFrame>>

\* tm.transactionIdBatchStart, tm.transactionIdBatchEnd = ...
TxnIdAssign(g) ==
    /\ callers[g].pc = "assign"
    /\ transactionIdBatch' = [transactionIdBatch EXCEPT
                                 !.transactionIdBatchStart = callers[g].start,
                                 !.transactionIdBatchEnd = callers[g].end]
    /\ callers' = [callers EXCEPT ![g].pc = "store"]
    /\ UNCHANGED <<currentTransactionId, walManager, handed, allocatorFrame>>

\* tm.currentTransactionId.Store(tm.transactionIdBatchStart)
TxnIdStore(g) ==
    /\ callers[g].pc = "store"
    /\ currentTransactionId' = transactionIdBatch.transactionIdBatchStart
    /\ callers' = [callers EXCEPT ![g].pc = "unlock"]
    /\ UNCHANGED <<transactionIdBatch, walManager, handed, allocatorFrame>>

\* tm.m.Unlock()
TxnIdUnlock(g) ==
    /\ callers[g].pc = "unlock"
    /\ transactionIdBatch' = [transactionIdBatch EXCEPT !.m = Nil]
    /\ callers' = [callers EXCEPT ![g].pc = "add"]
    /\ UNCHANGED <<currentTransactionId, walManager, handed, allocatorFrame>>

\* return tm.currentTransactionId.Add(1)
TxnIdAdd(g) ==
    /\ callers[g].pc = "add"
    /\ currentTransactionId' = currentTransactionId + 1
    /\ handed' = Append(handed, currentTransactionId + 1)
    /\ callers' = [callers EXCEPT ![g].pc = "idle", ![g].calls = @ + 1]
    /\ UNCHANGED <<transactionIdBatch, walManager, allocatorFrame>>

NextTxnId ==
    \E g \in Goroutines :
       \/ TxnIdCheck(g)
       \/ TxnIdLock(g)
       \/ TxnIdRecheck(g)
       \/ TxnIdAllocate(g)
       \/ TxnIdAssign(g)
       \/ TxnIdStore(g)
       \/ TxnIdUnlock(g)
       \/ TxnIdAdd(g)

SpecTxnId == InitDB(0, TRUE) /\ [][NextTxnId]_vars

\* ------------------------------------------------------- concurrent writes
\* PUT handlers of two connections, each in the goroutine of its connection,
\* that run GetNewGsn step by step: transactions write key 1 and auto-commit
\* requests write key 2. A handler runs as one step up to its
\* call of GetNewGsn and as one step from the return of GetNewGsn.
ConnOf(g) == IF g = "g1" THEN "c1" ELSE "c2"

\* execPut up to dm.GsnManager.GetNewGsn()
WriteUntilGsn(c, p, acq) ==
    IF acq.res = "granted"
    THEN /\ SetDB(acq.db)
         /\ pending' = [pending EXCEPT ![c] = [p EXCEPT !.phase = "gsn"]]
         /\ resp' = NoResp
    ELSE AtLock(c, p, acq)

PutCall(c, k, v, tg) ==
    LET gi == Enter(tg)
        p == [Idle EXCEPT !.op = "PUT", !.txn = tg.t, !.level = gi.level,
                          !.auto = tg.auto, !.key = k, !.val = v,
                          !.foreign = Foreign(c, tg)]
    IN /\ Accept(c)
       /\ Admitted(tg)
       /\ gsn < MaxGsn
       /\ Len(transactionLocks[tg.t]) < MaxLocks
       /\ WriteUntilGsn(c, p, AcquireWriteLock(gi.db, tg.t, k, gi.level, c))

\* The queued write lock has been granted
ResumeCall(c) ==
    /\ UNCHANGED requests
    /\ pending[c].waiting
    /\ c \in acquiredCh
    /\ SetDB([DB EXCEPT !.acquiredCh = @ \ {c}])
    /\ pending' = [pending EXCEPT ![c].waiting = FALSE, ![c].phase = "gsn"]
    /\ resp' = NoResp

\* BEGIN while no goroutine is inside GetNewGsn
BeginCall(c, level) ==
    /\ \A g \in Goroutines : callers[g].pc = "idle"
    /\ Begin(c, level)

\* The handler calls GetNewGsn
CallGetNewGsn(g) ==
    /\ pending[ConnOf(g)].phase = "gsn"
    /\ GsnCheck(g)

\* GetNewGsn returns n and the handler runs to its end
WriteWithGsn(g, d, n) ==
    LET c == ConnOf(g)
        p == pending[c]
        r == execWriteAt(d, n, p.op, c, p.txn, p.key, p.val, p.auto, p.level)
    IN /\ SetShared(r.db)
       /\ resp' = r.resp
       /\ pending' = [pending EXCEPT ![c] = r.pend]
       /\ handed' = Append(handed, n)
       /\ callers' = [callers EXCEPT ![g].pc = "idle", ![g].calls = @ + 1]
       /\ UNCHANGED requests

\* return gm.gsn.Add(1)
ReturnAdd(g) ==
    /\ callers[g].pc = "add"
    /\ WriteWithGsn(g, [DB EXCEPT !.gsn = @ + 1], gsn + 1)

\* gm.m.Unlock(); return toReturn
ReturnUnlock(g) ==
    /\ callers[g].pc = "unlock"
    /\ WriteWithGsn(g, [DB EXCEPT !.gsnManager.m = Nil], callers[g].toReturn)

NextConcurrent ==
    \/ \E c \in Conns : BeginCall(c, TXN_ISOLATION_READ_COMMITTED)
    \/ \E c \in Conns : \E tg \in Own(c) : PutCall(c, 1, "a", tg)
    \/ \E c \in Conns : \E v \in Vals : PutCall(c, 2, v, AutoCommit)
    \/ \E c \in Conns : ResumeCall(c)
    \/ \E c \in Conns : Timeout(c)
    \/ \E g \in Goroutines :
          \/ CallGetNewGsn(g)
          \/ GsnLock(g)
          \/ GsnAllocate(g)
          \/ GsnAssign(g)
          \/ GsnRefillAdd(g)
          \/ GsnStore(g)
          \/ ReturnAdd(g)
          \/ ReturnUnlock(g)

SpecConcurrent == InitDB(MaxConcurrentRequests, TRUE) /\ [][NextConcurrent]_vars

\* ------------------------------------------------------- StoreManager API
\* Clients that call StoreManager.Get and StoreManager.Put directly, with no
\* transaction: every goroutine reads a counter and then writes the value it
\* has read plus one.

\* StoreManager.Get: "-1" for a key without value, "-2" for a tombstone
StoreManagerGet(d, k) ==
    LET v == StoreGet(d.table, k) IN
    IF v = Nil THEN "-1" ELSE IF v = TypeTombstone THEN "-2" ELSE v

\* strconv.Itoa and strconv.Atoi on the numbers a counter can hold
Decimal == <<"0", "1", "2", "3", "4", "5", "6", "7", "8", "9">>
Itoa(n) == Decimal[n + 1]
Atoi(str) ==
    IF str = "-1" THEN -1
    ELSE IF str = "-2" THEN -2
    ELSE (CHOOSE n \in 1..Len(Decimal) : Decimal[n] = str) - 1

\* StoreManager.Put without transaction id, and putByTransactionRow; a row of
\* this version carries no state.
StoreManagerPut(d, k, v) ==
    LET d1 == GetNewTransactionId(d)
        d2 == GetNewGsn(d1)
        oldValue == StoreGet(d2.table, k)
        transactionRow == NewTransactionRow(d1.currentTransactionId, "PUT", "",
                                            k, d2.gsn, oldValue, v)
    IN [AddTransactionToWal(d2, transactionRow) EXCEPT
           !.table = StorePut(@, k, d2.gsn, v)]

\* The test's set-up: every counter starts at 0
InitializeCounter(k) ==
    /\ k \notin DOMAIN table
    /\ SetDB(StoreManagerPut(DB, k, Itoa(0)))
    /\ resp' = [op |-> "PUT", key |-> k, value |-> Itoa(0)]
    /\ UNCHANGED <<pending, requests>>

Increments(g) == callers[g].puts[1] + callers[g].puts[2]

\* valueBytes, err := sm.Get(getCmd)
IncrementGet(g, k) ==
    /\ DOMAIN table = Keys
    /\ callers[g].pc = "idle"
    /\ Increments(g) < MaxIncrements
    /\ callers' = [callers EXCEPT ![g].pc = "read", ![g].key = k,
                                  ![g].value = StoreManagerGet(DB, k)]
    /\ resp' = [op |-> "GET", key |-> k, value |-> StoreManagerGet(DB, k)]
    /\ UNCHANGED <<gsn, gsnManager, walManager, handed, table,
                   transactionStoreMap, connToTransactionIdsMap,
                   txnToIsolationLevelMap, txnStartGsnMap, lockTable,
                   transactionLocks, waitingRequests, acquiredCh,
                   currentTransactionId, pending, written, lastGet, beginVals,
                   sinceBegin, requests, UseWal, transactionIdBatch>>

\* _, err = sm.Put(putCmd); expectedIncrements[counterIdx]++
IncrementPut(g) ==
    /\ callers[g].pc = "read"
    /\ SetShared(StoreManagerPut(DB, callers[g].key, Itoa(Atoi(callers[g].value) + 1)))
    /\ callers' = [callers EXCEPT ![g].pc = "idle",
                                  ![g].puts[callers[g].key] = @ + 1]
    /\ resp' = [op |-> "PUT", key |-> callers[g].key,
                  value |-> Itoa(Atoi(callers[g].value) + 1)]
    /\ UNCHANGED <<pending, requests, handed>>

NextIncrement ==
    \/ \E k \in Keys : InitializeCounter(k)
    \/ \E g \in Goroutines : \E k \in Keys : IncrementGet(g, k)
    \/ \E g \in Goroutines : IncrementPut(g)

SpecIncrement == InitDB(0, TRUE) /\ [][NextIncrement]_vars

\* ------------------------------------------------------------------ claims
ReadOps == {"GET", "RGET", "COUNT"}

C2_ReadYourWrites ==
    (resp.op = "GET" /\ resp.status = "value" /\ resp.writes[resp.key].val # Nil) =>
        resp.results[resp.key] = resp.writes[resp.key].val

\* A transaction read back its own staged PUT while the committed value of
\* the key was another one.
C2_Witness ==
    /\ resp.op = "GET"
    /\ resp.status = "value"
    /\ resp.writes[resp.key].val \in Vals
    /\ resp.results[resp.key] = resp.writes[resp.key].val
    /\ StoreGet(table, resp.key) \in Vals
    /\ StoreGet(table, resp.key) # resp.results[resp.key]

\* The keys a transaction had staged a PUT or DELETE of when the handler
\* that answered started.
WrittenKeys == {k \in Keys : resp.writes[k].val # Nil}

\* C3: a COMMIT of a transaction whose staged writes are of keys that have no
\* committed version (brand-new keys) returns OK.
C3_CommitNewKey ==
    (/\ resp.op = "COMMIT"
     /\ WrittenKeys # {}
     /\ WrittenKeys \subseteq resp.absent) => resp.status = "OK"

\* C4: after a COMMIT that returned OK, every key the transaction staged
\* with PUT or DELETE has the staged value in the table at exactly the staged
\* GSN, and the latest GSN of the key in the table is at least that GSN.
C4_CommitApplied ==
    (resp.op = "COMMIT" /\ resp.status = "OK") =>
        \A k \in WrittenKeys :
            /\ HasKey(table, k)
            /\ resp.writes[k].gsn \in DOMAIN table[k]
            /\ table[k][resp.writes[k].gsn] = resp.writes[k].val
            /\ GetLatestGsn(table, k) >= resp.writes[k].gsn

C5_SnapshotStability ==
    (/\ resp.op \in ReadOps
     /\ resp.status = "value"
     /\ resp.level = TXN_ISOLATION_SNAPSHOT_ISOLATION) =>
        \A k \in DOMAIN resp.results :
            resp.results[k] \in Vals =>
                \/ resp.results[k] = resp.writes[k].val
                \/ resp.results[k] \in resp.beginVals[k]

\* C6: first-committer-wins.  A SNAPSHOT_ISOLATION transaction S that wrote
\* k does not commit when another transaction committed a write of k after
\* S's BEGIN.
C6_FirstCommitterWins ==
    (resp.op = "COMMIT" /\ resp.status = "OK") =>
        WrittenKeys \cap resp.sinceBegin = {}

\* The locks of the lock table that a transaction owns.
LocksOf(t) ==
    {<<key, i>> \in LockKeys \X (1..MaxLocks * MaxTxnId) :
        i <= Len(lockTable[key]) /\ lockTable[key][i].txn = t}

\* C8: every terminal transition releases every lock.  Once COMMIT or
\* ROLLBACK of T has returned, or an error has aborted T, the lock manager
\* holds no lock owned by T.
C8_TerminalReleasesLocks ==
    (resp.op # "none" /\ resp.cleared) =>
        /\ LocksOf(resp.txn) = {}
        /\ transactionLocks[resp.txn] = <<>>

\* C9: point-lock mutual exclusion.  Two different transactions that hold a
\* point lock on the same key both hold a READ lock.
C9_PointLockExclusion ==
    \A k \in Keys :
        \A i, j \in 1..Len(lockTable[PointKey(k)]) :
            LET a == lockTable[PointKey(k)][i]
                b == lockTable[PointKey(k)][j]
            IN a.txn # b.txn => (a.type = ReadLock /\ b.type = ReadLock)

\* A waiting request was granted when the holder released the key: the
\* requester holds the point lock and has not yet been woken up.
C9_Witness ==
    \E c \in acquiredCh :
        /\ pending[c].waiting
        /\ pending[c].lockKey \in {PointKey(k) : k \in Keys}
        /\ \E i \in 1..Len(lockTable[pending[c].lockKey]) :
              /\ lockTable[pending[c].lockKey][i].txn = pending[c].txn
              /\ lockTable[pending[c].lockKey][i].type = WriteLock

\* C10: while a transaction holds a range lock on [a, b], no other
\* transaction holds a point lock on a key of [a, b].
C10_RangeExcludesPoint ==
    \A a \in Keys, b \in Keys :
        \A i \in 1..Len(lockTable[RangeKey(a, b)]) :
            \A k \in Keys :
                (a <= k /\ k <= b) =>
                    \A j \in 1..Len(lockTable[PointKey(k)]) :
                        lockTable[PointKey(k)][j].txn = lockTable[RangeKey(a, b)][i].txn

\* The range locks held: <<transaction, start, end>>, the interval being the
\* one the lock was requested for.
RangeLocksHeld ==
    {<<lockTable[RangeKey(a, b)][i].txn, a, b>> :
        <<a, b, i>> \in {x \in Keys \X Keys \X (1..MaxLocks * MaxTxnId) :
                            x[3] <= Len(lockTable[RangeKey(x[1], x[2])])}}

\* C11: two different transactions never hold range locks at the same time
\* whose intervals overlap, whether the two ranges are the same or have
\* different start or end keys.
C11_RangeLocksDisjoint ==
    \A x \in RangeLocksHeld, y \in RangeLocksHeld :
        x[1] # y[1] => (x[3] < y[2] \/ y[3] < x[2])

\* The predicate locks held: <<transaction, predicate>>.
PredicateLocksHeld ==
    {<<lockTable[PredicateKey(p)][i].txn, p>> :
        <<p, i>> \in {x \in Conds \X (1..MaxLocks * MaxTxnId) :
                         x[2] <= Len(lockTable[PredicateKey(x[1])])}}

\* C12: two different transactions never hold a predicate lock on the same
\* predicate at the same time: the second one's request is granted only
\* after the first one released its lock.
C12_PredicateLockExclusion ==
    \A x \in PredicateLocksHeld, y \in PredicateLocksHeld :
        x[2] = y[2] => x[1] = y[1]

\* A COUNT that had to wait for the predicate was granted the lock when the
\* holder ended, and has not been woken up yet.
C12_Witness ==
    \E c \in acquiredCh :
        /\ pending[c].waiting
        /\ pending[c].op = "COUNT"
        /\ <<pending[c].txn, pending[c].cond>> \in PredicateLocksHeld

C14_RollbackDiscards ==
    (resp.op = "ROLLBACK" /\ resp.status = "OK") =>
        \A k \in Keys :
            HasKey(table, k) => resp.writes[k].gsns \cap DOMAIN table[k] = {}

\* A transaction that had staged a write of a key with committed versions
\* was rolled back.
C14_Witness ==
    /\ resp.op = "ROLLBACK"
    /\ resp.status = "OK"
    /\ \E k \in WrittenKeys : HasKey(table, k)

\* C16: after a PUT inside a SNAPSHOT_ISOLATION transaction failed with a
\* write-write conflict, the ROLLBACK of that transaction that the same
\* connection sends next returns OK.
C16_RollbackAfterConflict ==
    [][(/\ resp.op = "PUT"
        /\ resp.status = "error"
        /\ resp.err = WriteWriteConflict
        /\ resp.level = TXN_ISOLATION_SNAPSHOT_ISOLATION
        /\ resp'.op = "ROLLBACK"
        /\ resp'.txn = resp.txn
        /\ resp'.conn = resp.conn) => resp'.status = "OK"]_vars

C17_AutoGetNotBlocked ==
    \A c \in Conns :
        (/\ pending[c].op = "GET"
         /\ pending[c].auto
         /\ \E t \in DOMAIN transactionStoreMap :
               /\ t # pending[c].txn
               /\ written[t][pending[c].key].val \in Vals) => ~pending[c].waiting

\* The transactions that hold a lock of the lock table on key k.
Holders(k) ==
    {lockTable[PointKey(k)][i].txn : i \in 1..Len(lockTable[PointKey(k)])}

\* C18: while a REPEATABLE_READ transaction that has read k is active, an
\* auto-commit PUT of k by another connection returns OK: it does not wait
\* until the transaction ends.  (The only locks on k are the READ locks of
\* such transactions.)
C18_AutoPutNotBlocked ==
    \A c \in Conns :
        (/\ pending[c].op = "PUT"
         /\ pending[c].auto
         /\ Holders(pending[c].key) # {}
         /\ \A t \in Holders(pending[c].key) :
               /\ t \in DOMAIN transactionStoreMap
               /\ t \in DOMAIN txnToIsolationLevelMap
               /\ txnToIsolationLevelMap[t] = TXN_ISOLATION_REPEATABLE_READ
               /\ lastGet[t][pending[c].key] \in Vals
               /\ written[t][pending[c].key].val = Nil) => ~pending[c].waiting

\* The request that connection c is answering named a transaction t that
\* was open, and that another connection had begun, when c sent it.
IssuedForeign(c, t) ==
    IF pending[c] = Idle
    THEN t \in DOMAIN transactionStoreMap /\ t \notin connToTransactionIdsMap[c]
    ELSE pending[c].foreign

\* C19: a PUT, DELETE, GET, COMMIT or ROLLBACK that names an active
\* transaction and is sent on another connection than the one that began it
\* never succeeds: it returns an error, and the table is not changed by it.
C19_ForeignNeverSucceeds ==
    [][(/\ resp'.op \in {"PUT", "DELETE", "GET", "COMMIT", "ROLLBACK"}
        /\ IssuedForeign(resp'.conn, resp'.txn)) =>
            /\ resp'.status = "error"
            /\ table' = table]_vars

C21_GsnUnique ==
    \A i, j \in 1..Len(handed) : i # j => handed[i] # handed[j]

\* C22: every GSN that GetNewGsn has handed out is at most the next_gsn that
\* the WAL header holds.
C22_HandedWithinHeader ==
    \A i \in 1..Len(handed) : handed[i] <= walManager.walHeader.NextGsn

\* The rows of the WAL file
WalRows == {UnmarshalBinary(walManager.rows[i]) : i \in 1..Len(walManager.rows)}

\* The ids that have a row in COMMIT state
CommittedIds == {r.TransactionId : r \in {x \in WalRows : x.State = TRANSACTION_STATE_COMMIT}}

\* C25: write-ahead durability: with the WAL enabled, every version in the
\* table has a PUT or DELETE row with its key, GSN and value in the WAL, of a
\* transaction that has a row in COMMIT state in the WAL.
C25_WriteAheadDurability ==
    UseWal =>
       \A k \in DOMAIN table : \A g \in DOMAIN table[k] :
          \E r \in WalRows :
             /\ r.Operation \in {"PUT", "DELETE"}
             /\ r.Key = k /\ r.Gsn = g /\ r.NewValue = table[k][g]
             /\ r.TransactionId \in CommittedIds

\* The versions of a table, as (key, GSN, value)
Versions(tbl) ==
    UNION {{<<k, g, tbl[k][g]>> : g \in DOMAIN tbl[k]} : k \in DOMAIN tbl}

\* The PUT and DELETE rows of the WAL whose transaction id has a row in
\* COMMIT state, as (key, GSN, new value)
CommittedWrites ==
    {<<r.Key, r.Gsn, r.NewValue>> :
        r \in {x \in WalRows : /\ x.Operation \in {"PUT", "DELETE"}
                               /\ x.TransactionId \in CommittedIds}}

IssuedAuto(c) ==
    IF pending[c] = Idle THEN currentTransactionId' = currentTransactionId + 1
    ELSE pending[c].auto

\* C26: once an auto-commit PUT or DELETE has returned, with OK or with an
\* error, the lock manager holds no lock of its transient transaction and
\* the transaction manager holds no staging store for it.
C26_AutoCommitLeavesNothing ==
    [][(/\ resp'.op \in {"PUT", "DELETE"}
        /\ IssuedAuto(resp'.conn))
       => /\ \A key \in LockKeys : \A i \in 1..Len(lockTable'[key]) :
                lockTable'[key][i].txn # resp'.txn
          /\ transactionLocks'[resp'.txn] = <<>>
          /\ resp'.txn \notin DOMAIN transactionStoreMap']_vars

\* An auto-commit write that waited for the lock of an open transaction and
\* returned an error, while that transaction still holds its lock
C26_Witness ==
    /\ resp.op \in {"PUT", "DELETE"}
    /\ resp.status = "error"
    /\ resp.txn \notin connToTransactionIdsMap[resp.conn]
    /\ \E t \in DOMAIN transactionStoreMap : transactionLocks[t] # <<>>

\* C27: in a filtered read inside transaction T the staging store wins: a
\* key that T has deleted or overwritten is reported, if at all, with the
\* value T staged; a deleted key is not reported and not counted.
C27_StagingWinsInFilteredRead ==
    (resp.op = "COUNT" /\ resp.status = "value") =>
        \A k \in Keys :
           (resp.writes[k].val # Nil /\ k \in DOMAIN resp.results)
              => resp.results[k] = resp.writes[k].val

\* C28: committed versions are immutable: a version (key, GSN) of the table
\* keeps its value through every PUT, DELETE, GET, range or filtered read,
\* COMMIT and ROLLBACK.
C28_VersionsImmutable ==
    [][\A k \in DOMAIN table : \A g \in DOMAIN table[k] :
          /\ k \in DOMAIN table'
          /\ g \in DOMAIN table'[k]
          /\ table'[k][g] = table[k][g]]_vars

\* C29: no lost increments through the StoreManager API: when the clients
\* that each run GET k and then PUT k (value + 1) have finished, the value of
\* k is the number of PUTs to k that returned successfully.
C29_NoLostIncrements ==
    (\A g \in Goroutines : callers[g].pc = "idle" /\ Increments(g) = MaxIncrements)
       => \A k \in Keys :
             Atoi(StoreManagerGet(DB, k)) = callers["g1"].puts[k] + callers["g2"].puts[k]

\* C30: lock-index consistency: a lock is in the list of its scope
\* (lockTable) if and only if it is in the list of its owner
\* (transactionLocks), for point, range and predicate locks.
C30_LockIndexConsistent ==
    /\ \A key \in DOMAIN lockTable : \A i \in 1..Len(lockTable[key]) :
          LET l == lockTable[key][i] IN
          /\ l.key = key
          /\ \E j \in 1..Len(transactionLocks[l.txn]) : transactionLocks[l.txn][j] = l
    /\ \A t \in DOMAIN transactionLocks : \A j \in 1..Len(transactionLocks[t]) :
          LET l == transactionLocks[t][j] IN
          /\ l.txn = t
          /\ \E i \in 1..Len(lockTable[l.key]) : lockTable[l.key][i] = l

\* A release has granted a queued request: its connection has been signalled
\* and its transaction holds the lock, while a range lock is held as well.
C30_Witness ==
    /\ \E c \in acquiredCh :
          /\ pending[c].waiting
          /\ \E i \in 1..Len(lockTable[pending[c].lockKey]) :
                lockTable[pending[c].lockKey][i].txn = pending[c].txn
    /\ \E key \in DOMAIN lockTable : key[1] # "point" /\ lockTable[key] # <<>>

\* The lock type that the handler of a queued point-lock request asked for
RequestedType(p) == IF p.op \in {"PUT", "DELETE"} THEN WriteLock ELSE ReadLock

\* Transactions other than p's hold a lock on p's scope that conflicts
ConflictingHolder(p) ==
    \E i \in 1..Len(lockTable[p.lockKey]) :
       /\ lockTable[p.lockKey][i].txn # p.txn
       /\ ~areLocksCompatible(lockTable[p.lockKey][i].type, RequestedType(p))

\* The transaction of the queued request p holds the lock it asked for
HoldsRequested(p) ==
    \E i \in 1..Len(lockTable[p.lockKey]) :
       /\ lockTable[p.lockKey][i].txn = p.txn
       /\ lockTable[p.lockKey][i].type = RequestedType(p)

\* C31: a transaction queued for a point lock on k is granted the lock when
\* the holders of the conflicting locks on k release them: the step that
\* removes the last conflicting lock of another transaction grants the lock
\* to the waiting transaction and signals its connection, and a waiting
\* request is never left unsignalled without a conflicting holder.
C31_GrantedOnRelease ==
    [][\A c \in Conns :
          (/\ pending[c].waiting
           /\ pending'[c] = pending[c]
           /\ pending[c].lockKey[1] = "point"
           /\ ~ConflictingHolder(pending[c])')
          => /\ c \in acquiredCh'
             /\ (ConflictingHolder(pending[c]) => HoldsRequested(pending[c])')]_vars

\* Another transaction holds a point lock on a key inside the range that the
\* queued request p asks for
PointHolderInside(p) ==
    \E k \in Keys :
       /\ k >= p.lockKey[2]
       /\ k <= p.lockKey[3]
       /\ \E i \in 1..Len(lockTable[PointKey(k)]) : lockTable[PointKey(k)][i].txn # p.txn

\* C32: a transaction queued for a range lock on [a,b] behind a point lock
\* of another transaction inside [a,b] is granted the range lock when that
\* point lock is released: the step that removes the last such point lock,
\* with no lock of another transaction on the range, grants the range lock
\* and signals the waiting connection.
C32_RangeGrantedOnPointRelease ==
    [][\A c \in Conns :
          (/\ pending[c].waiting
           /\ pending'[c] = pending[c]
           /\ pending[c].lockKey[1] = "range"
           /\ c \notin acquiredCh
           /\ PointHolderInside(pending[c])
           /\ ~PointHolderInside(pending[c])'
           /\ \A i \in 1..Len(lockTable'[pending[c].lockKey]) :
                 lockTable'[pending[c].lockKey][i].txn = pending[c].txn)
          => /\ c \in acquiredCh'
             /\ \E i \in 1..Len(lockTable'[pending[c].lockKey]) :
                   lockTable'[pending[c].lockKey][i].txn = pending[c].txn]_vars

\* C33: when AcquireLock, AcquireRangeLock or AcquirePredicateLock returns a
\* timeout error for a transaction, the transaction was not granted the
\* lock it requested: no release has granted the request and signalled the
\* waiting connection.
C33_TimeoutMeansNotGranted ==
    [][\A c \in Conns :
          (/\ pending[c].waiting
           /\ "err" \in DOMAIN resp'
           /\ resp'.err = LockTimeout
           /\ resp'.conn = c)
          => c \notin acquiredCh]_vars

\* The point-lock request p closes a cycle of two transactions: another
\* transaction holds a conflicting lock on p's key and is queued for a point
\* lock on a key that p's transaction holds a lock on.
TwoCycle(p) ==
    \E i \in 1..Len(lockTable[p.lockKey]) :
       LET l == lockTable[p.lockKey][i] IN
       /\ l.txn # p.txn
       /\ ~areLocksCompatible(l.type, RequestedType(p))
       /\ \E j \in 1..Len(transactionLocks[p.txn]) :
             LET held == transactionLocks[p.txn][j] IN
             /\ held.key[1] = "point"
             /\ \E w \in 1..Len(waitingRequests[held.key]) :
                   waitingRequests[held.key][w].txn = l.txn

\* C34: two-cycle deadlock detection: when T1 holds a lock on k1 and is
\* queued for a point lock on k2 that T2 holds, a conflicting point-lock
\* request of T2 for k1 is answered with the deadlock error in the step that
\* makes it, and T2 is not added to a wait queue.
C34_TwoCycleDetected ==
    [][\A c \in Conns :
          pending[c] = Idle =>
             /\ ~(/\ pending'[c].waiting
                  /\ pending'[c].lockKey[1] = "point"
                  /\ TwoCycle(pending'[c]))
             /\ (/\ requests' = requests - 1
                 /\ "err" \in DOMAIN resp'
                 /\ resp'.conn = c
                 /\ resp'.op \in {"PUT", "DELETE", "GET"}
                 /\ resp'.level # TXN_ISOLATION_SNAPSHOT_ISOLATION
                 /\ TwoCycle([txn |-> resp'.txn, op |-> resp'.op,
                              lockKey |-> PointKey(resp'.key)]))
                => /\ resp'.err = DeadlockDetected
                   /\ \A key \in DOMAIN waitingRequests' :
                         \A w \in 1..Len(waitingRequests'[key]) :
                            waitingRequests'[key][w].txn # resp'.txn]_vars

\* T2's request has been answered with the deadlock error while T1 waits
C34_Witness ==
    /\ "err" \in DOMAIN resp
    /\ resp.err = DeadlockDetected
    /\ resp.op \in {"PUT", "GET"}
    /\ \E c \in Conns : pending[c].waiting /\ pending[c].lockKey[1] = "point"

\* C35: every call of AcquireLock, AcquireRangeLock or AcquirePredicateLock
\* that waits in the queue returns in the end, by a grant or by the timeout,
\* also when three transactions wait for each other in a cycle.
C35_AcquireTerminates ==
    \A c \in Clients : pending[c].waiting ~> ~pending[c].waiting

\* Three transactions each hold a point lock and wait for the next one's.
C35_Witness ==
    /\ \A c \in Clients :
          /\ pending[c].waiting
          /\ pending[c].lockKey[1] = "point"
          /\ c \notin acquiredCh
          /\ \E o \in Clients \ {c} :
                \E i \in 1..Len(lockTable[pending[c].lockKey]) :
                    lockTable[pending[c].lockKey][i].txn = ClientTxn[o]
    /\ \A c \in Clients : transactionLocks[ClientTxn[c]] # <<>>

\* C36: while a REPEATABLE_READ transaction that read key k with GET is
\* active, it holds its READ lock on k and no other transaction holds a WRITE
\* lock on k.
ReadByRepeatableRead(t, k) ==
    /\ t \in DOMAIN txnToIsolationLevelMap
    /\ txnToIsolationLevelMap[t] = TXN_ISOLATION_REPEATABLE_READ
    /\ lastGet[t][k] \in Vals

C36_ReadLockHeldToEnd ==
    \A t \in TxnIds, k \in Keys :
        ReadByRepeatableRead(t, k) =>
            /\ \E i \in 1..Len(lockTable[PointKey(k)]) :
                  /\ lockTable[PointKey(k)][i].txn = t
                  /\ lockTable[PointKey(k)][i].type = ReadLock
            /\ \A i \in 1..Len(lockTable[PointKey(k)]) :
                  lockTable[PointKey(k)][i].type = WriteLock
                      => lockTable[PointKey(k)][i].txn = t

\* A writer waits for the key that a REPEATABLE_READ transaction has read.
C36_Witness ==
    \E t \in TxnIds, k \in Keys, c \in Conns :
        /\ ReadByRepeatableRead(t, k)
        /\ pending[c].waiting
        /\ pending[c].op \in {"PUT", "DELETE"}
        /\ pending[c].lockKey = PointKey(k)
        /\ pending[c].txn # t
        /\ \A i \in 1..Len(lockTable[PointKey(k)]) :
              lockTable[PointKey(k)][i].type = ReadLock

\* C37: the COMMIT of a transaction that wrote nothing (it executed only
\* GET, RGET or COUNT) leaves the table as it was.
C37_ReadOnlyCommitFrame ==
    [][(/\ requests' = requests - 1
        /\ resp'.op = "COMMIT"
        /\ resp'.writes = NoWrites)
       => table' = table]_vars

\* C38: a PUT, DELETE, GET, COMMIT or ROLLBACK that names an active
\* transaction of another connection and is rejected leaves that
\* transaction's staging store, isolation level and held locks as they were.
C38_RejectedForeignFrame ==
    [][(/\ resp'.op \in {"PUT", "DELETE", "GET", "COMMIT", "ROLLBACK"}
        /\ IssuedForeign(resp'.conn, resp'.txn)
        /\ resp'.status = "error"
        /\ resp'.txn \in DOMAIN transactionStoreMap
        /\ resp'.txn \in DOMAIN txnToIsolationLevelMap) =>
            /\ resp'.txn \in DOMAIN transactionStoreMap'
            /\ transactionStoreMap'[resp'.txn] = transactionStoreMap[resp'.txn]
            /\ resp'.txn \in DOMAIN txnToIsolationLevelMap'
            /\ txnToIsolationLevelMap'[resp'.txn] = txnToIsolationLevelMap[resp'.txn]
            /\ transactionLocks'[resp'.txn] = transactionLocks[resp'.txn]]_vars

\* C39: transaction-id uniqueness: no two calls of GetNewTransactionId
\* return the same id, whatever the interleaving of the callers around a
\* batch refill.
C39_TransactionIdUnique ==
    \A i, j \in 1..Len(handed) : i # j => handed[i] # handed[j]

====
